---- MODULE Spec2Model ----
(***************************************************************************)
(* A model of rw-parser-rs: the byte cursor (utils/byte_stream.rs), the    *)
(* section framing (renderware/rw_file.rs), the version codec              *)
(* (utils/rw_version.rs) and the DFF / IFP / TXD decoders built on them.   *)
(*                                                                         *)
(* Conventions                                                             *)
(*  - a buffer is a sequence of bytes (0..255); positions are 0-based as   *)
(*    in std::io::Cursor, so byte k of the buffer is buf[k+1];             *)
(*  - every reader is an operator from a position to a record              *)
(*    [st, pos, v]: st is "ok" or the kind of failure ("eof" is            *)
(*    io::ErrorKind::UnexpectedEof, "panic" is a Rust panic), pos the      *)
(*    cursor after the call, v the value returned;                         *)
(*  - an f32 is kept as the 4 bytes of its bit pattern;                    *)
(*  - Option<T> is a sequence of length 0 (None) or 1 (Some);              *)
(*  - a String is the sequence of its code points;                         *)
(*  - a usize/u64 argument above isize::MAX is written as its two's        *)
(*    complement reading (a negative number), so usize::MAX is -1.         *)
(***************************************************************************)
EXTENDS Integers, Sequences, FiniteSets, TLC

VARIABLES
    buf,            \* the immutable input buffer (Cursor<&[u8]>::get_ref)
    pos,            \* the cursor position (Cursor::position)
    status,         \* "run" while a decode is in progress, else its outcome
    last,           \* the operation performed by the last step
    out,            \* the value returned by the last completed call
    version,        \* DffParser::parse local: Option<String>
    version_number, \* DffParser::parse local: Option<u32>
    atomics,        \* DffParser::parse local: Vec<u32>
    dummies,        \* DffParser::parse local: Vec<String>
    anim_nodes,     \* DffParser::parse local: Vec<RwAnimNode>
    geometry_list,  \* DffParser::parse local: Option<RwGeometryList>
    frame_list,     \* DffParser::parse local: Option<RwFrameList>
    alloc,          \* the Vec::with_capacity requests made by the last step
    run,            \* which decode call over buf this is (1 or 2)
    prev,           \* the outcome of the first decode call over buf
    inp,            \* the parameters the input buffer was built from
    locals          \* the locals of the reader being stepped through

vars == <<buf, pos, status, last, out, version, version_number, atomics,
          dummies, anim_nodes, geometry_list, frame_list, alloc, run, prev, inp, locals>>

dffVars == <<version, version_number, atomics, dummies, anim_nodes,
             geometry_list, frame_list>>

-----------------------------------------------------------------------------
(* Little-endian integer decoding (byteorder::LittleEndian).               *)

U16LE(s) == s[1] + 256 * s[2]

I16LE(s) == IF s[2] >= 128 THEN U16LE(s) - 65536 ELSE U16LE(s)

U32LE(s) == s[1] + 256 * s[2] + 65536 * s[3] + 16777216 * s[4]

I32LE(s) == s[1] + 256 * s[2] + 65536 * s[3]
            + 16777216 * (IF s[4] >= 128 THEN s[4] - 256 ELSE s[4])

-----------------------------------------------------------------------------
(* ByteStream                                                              *)

\* usize::MAX in the two's complement reading used for usize arguments.
UsizeMax == -1

\* Cursor::remaining_slice: the bytes from min(pos, len) to the end.
Remaining(p) == IF p >= Len(buf) THEN 0 ELSE Len(buf) - p

Failed(kind, p) == [st |-> kind, pos |-> p, v |-> <<>>]

\* Read::read_exact on the cursor: all n bytes or UnexpectedEof.
read_exact(p, n) ==
    IF n <= Remaining(p)
    THEN [st |-> "ok", pos |-> p + n, v |-> SubSeq(buf, p + 1, p + n)]
    ELSE Failed("eof", p)

\* vec![0; size]: a capacity above isize::MAX panics ("capacity overflow").
VecZeroed(size) == IF size < 0 THEN "panic" ELSE "ok"

\* A read that got its bytes yields the value D decodes from them.
Decoded(r, D(_)) == IF r.st = "ok" THEN [r EXCEPT !.v = D(r.v)] ELSE r

read_u8(p) == Decoded(read_exact(p, 1), Head)

read_u16(p) == Decoded(read_exact(p, 2), U16LE)

read_u32(p) == Decoded(read_exact(p, 4), U32LE)

read_i16(p) == Decoded(read_exact(p, 2), I16LE)

read_i32(p) == Decoded(read_exact(p, 4), I32LE)

\* The f32 is kept as its 4-byte bit pattern.
read_f32(p) == read_exact(p, 4)

\* position(|&c| c == 0).unwrap_or(len): the bytes before the first NUL.
RECURSIVE UntilNul(_)
UntilNul(s) ==
    IF s = <<>> \/ Head(s) = 0 THEN <<>> ELSE <<Head(s)>> \o UntilNul(Tail(s))

\* U+FFFD REPLACEMENT CHARACTER.
ReplacementChar == 65533

\* String::from_utf8_lossy on the bytes the model's buffers hold: an ASCII
\* byte is its own code point, and a byte from 248 to 255, which no UTF-8
\* sequence contains, is replaced by U+FFFD.
Utf8Lossy(s) == [i \in 1..Len(s) |-> IF s[i] < 128 THEN s[i] ELSE ReplacementChar]

read_string(p, size) ==
    IF VecZeroed(size) # "ok" THEN Failed("panic", p)
    ELSE Decoded(read_exact(p, size), LAMBDA bytes : Utf8Lossy(UntilNul(bytes)))

read(p, size) ==
    IF VecZeroed(size) # "ok" THEN Failed("panic", p) ELSE read_exact(p, size)

get_size == Len(buf)

\* A skip that seeks from the start of the buffer instead of the cursor.
skip_from_start(p, size) ==
    IF size < 0 THEN Failed("invalid_seek", p)
    ELSE [st |-> "ok", pos |-> size, v |-> size]

\* Cursor::seek(SeekFrom::Current(size as i64)): any position >= 0 is
\* accepted, also beyond the end; a negative one is InvalidInput.
skip(p, size) ==
    IF p + size < 0 THEN Failed("invalid_seek", p)
    ELSE [st |-> "ok", pos |-> p + size, v |-> p + size]

\* A set_position that leaves the cursor after the four bytes just read.
set_position_after_peek(position) == [st |-> "ok", pos |-> position + 4, v |-> <<>>]

set_position(position) == [st |-> "ok", pos |-> position, v |-> <<>>]

\* A cursor that is left where the last call over the buffer put it.
new_keeping_position == pos' = pos

\* ByteStream::new: Cursor::new(buffer), at position 0.
new == pos' = 0

-----------------------------------------------------------------------------
(* The byte cursor driven directly by a caller.                            *)

MaxBufLen == 5
MaxReadSize == 5
MaxPosition == 7
BSBytes == {0, 65}

BSBuffers == UNION {[1..n -> BSBytes] : n \in 0..MaxBufLen}

SizeArgs == (0..MaxReadSize) \cup {UsizeMax}

ReadOps == {"read_u8", "read_u16", "read_u32", "read_i16", "read_i32",
            "read_f32", "read", "read_string"}

IdleDff ==
    /\ version = <<>>
    /\ version_number = <<>>
    /\ atomics = <<>>
    /\ dummies = <<>>
    /\ anim_nodes = <<>>
    /\ geometry_list = <<>>
    /\ frame_list = <<>>

NoAlloc == <<>>

NoLocals == <<>>

InitBS ==
    /\ buf \in BSBuffers
    /\ pos = 0
    /\ status = "ok"
    /\ last = [op |-> "new", need |-> 0, rem |-> 0]
    /\ out = <<>>
    /\ IdleDff
    /\ alloc = NoAlloc
    /\ locals = NoLocals
    /\ run = 1
    /\ prev = <<>>
    /\ inp = <<>>

\* After a failed read_exact the cursor is left where it was (std before
\* 1.80) or at the end of the buffer (later std).
AfterCall(r) == IF r.st = "eof" THEN {r.pos, Len(buf)} ELSE {r.pos}

BSCall(name, need, r) ==
    /\ pos <= MaxPosition
    /\ status' = r.st
    /\ out' = r.v
    /\ pos' \in AfterCall(r)
    /\ last' = [op |-> name, need |-> need, rem |-> Remaining(pos)]
    /\ UNCHANGED <<buf, dffVars, alloc, run, prev, inp, locals>>

BS_read_u8 == BSCall("read_u8", 1, read_u8(pos))
BS_read_u16 == BSCall("read_u16", 2, read_u16(pos))
BS_read_u32 == BSCall("read_u32", 4, read_u32(pos))
BS_read_i16 == BSCall("read_i16", 2, read_i16(pos))
BS_read_i32 == BSCall("read_i32", 4, read_i32(pos))
BS_read_f32 == BSCall("read_f32", 4, read_f32(pos))
BS_read_string == \E size \in SizeArgs : BSCall("read_string", size, read_string(pos, size))
BS_read == \E size \in SizeArgs : BSCall("read", size, read(pos, size))
BS_skip == \E size \in (0 - 2)..3 : BSCall("skip", size, skip(pos, size))
BS_set_position == \E p \in 0..MaxPosition : BSCall("set_position", p, set_position(p))

NextBS ==
    \/ BS_read_u8
    \/ BS_read_u16
    \/ BS_read_u32
    \/ BS_read_i16
    \/ BS_read_i32
    \/ BS_read_f32
    \/ BS_read_string
    \/ BS_read
    \/ BS_skip
    \/ BS_set_position

SpecBS == InitBS /\ [][NextBS]_vars

\* The last step was a read that needed more bytes than remained.
ShortRead ==
    /\ last.op \in ReadOps
    /\ (last.need < 0 \/ last.need > last.rem)

\* C1: every ByteStream read called with fewer bytes remaining than it
\* needs returns the unexpected-end-of-input error (and so neither data
\* nor a panic), also after skip or set_position moved the cursor past
\* the end of the buffer.
C1_ShortReadIsEof == ShortRead => status = "eof"

\* The part of C1 that the code does satisfy: a short read whose size is
\* at most isize::MAX fails with UnexpectedEof, wherever the cursor is.
BS_ShortReadWithinIsizeIsEof == (ShortRead /\ last.need >= 0) => status = "eof"

\* A successful read returns exactly the bytes between the old position
\* and the new one, which lies within the buffer.
BS_ReadWithinBuffer ==
    (last.op \in ReadOps /\ status = "ok")
        => (last.need <= last.rem /\ (last.need > 0 => pos <= Len(buf)))

-----------------------------------------------------------------------------
(* Version codec (utils/rw_version.rs).  A u32 that may use all 32 bits is *)
(* the record [hi, lo] of its 16-bit halves; the results, below 2^31, are  *)
(* plain numbers.                                                          *)

Wide(n) == [hi |-> n \div 65536, lo |-> n % 65536]

RECURSIVE Pow2(_)
Pow2(n) == IF n = 0 THEN 1 ELSE 2 * Pow2(n - 1)

\* a & b on naturals.
RECURSIVE BitAnd(_, _)
BitAnd(a, b) ==
    IF a = 0 \/ b = 0 THEN 0
    ELSE (a % 2) * (b % 2) + 2 * BitAnd(a \div 2, b \div 2)

\* a | b on naturals.
RECURSIVE BitOr(_, _)
BitOr(a, b) ==
    IF a = 0 THEN b
    ELSE IF b = 0 THEN a
    ELSE (IF a % 2 = 1 \/ b % 2 = 1 THEN 1 ELSE 0) + 2 * BitOr(a \div 2, b \div 2)

\* raw >> n for 1 <= n <= 16.
Shr(raw, n) == raw.hi * Pow2(16 - n) + raw.lo \div Pow2(n)

\* (raw & 0xFFFF0000) >> 16: zero exactly when the masked value is.
High16(raw) == BitAnd(raw.hi, 65535)

unpack_version_shr16(raw) ==
    IF High16(raw) # 0
    THEN BitOr(BitAnd(Shr(raw, 16), 261888) + 196608, BitAnd(Shr(raw, 16), 63))
    ELSE raw.lo

unpack_version(raw) ==
    IF High16(raw) # 0
    THEN BitOr(BitAnd(Shr(raw, 14), 261888) + 196608, BitAnd(Shr(raw, 16), 63))
    ELSE raw.lo

unpack_build(raw) ==
    IF High16(raw) # 0 THEN BitAnd(raw.lo, 65535) ELSE 0

\* RwVersion::new / get_version_string: the table of known releases;
\* unwrap_or_default gives the empty string for any other number.
get_version_string(n) ==
    CASE n = 200704 -> <<"RenderWare 3.1.0.0 (III on PS2)">>
      [] n = 204800 -> <<"RenderWare 3.2.0.0 (III on PC)">>
      [] n = 208898 -> <<"RenderWare 3.3.0.2 (III on PC, VC on PS2)">>
      [] n = 212995 -> <<"RenderWare 3.4.0.3 (VC on PC)">>
      [] n = 212997 -> <<"RenderWare 3.4.0.5 (III on PS2, VC on Android/PC)">>
      [] n = 217088 -> <<"RenderWare 3.5.0.0 (III/VC on Xbox)">>
      [] n = 221187 -> <<"RenderWare 3.6.0.3 (SA)">>
      [] OTHER -> <<>>

\* The raw values the codec is applied to: every combination of these
\* halves, which cover each bit of the word read by the code.
VerHalves == {0, 1, 2, 3, 63, 64, 65, 127, 1023, 1024, 3074, 6147, 16383,
              16384, 24579, 32767, 32768, 49152, 65471, 65535}

VerLows == {0, 1, 784, 16383, 16384, 24579, 65535}

InitVer ==
    /\ buf = <<>>
    /\ pos = 0
    /\ status = "run"
    /\ last = [op |-> "new"]
    /\ out = 0
    /\ IdleDff
    /\ alloc = NoAlloc
    /\ locals = NoLocals
    /\ run = 1
    /\ prev = <<>>
    /\ inp \in [hi : VerHalves, lo : VerLows]

\* unpack_version(raw)
Unpack ==
    /\ status = "run"
    /\ last.op = "new"
    /\ out' = unpack_version(inp)
    /\ last' = [op |-> "unpack"]
    /\ UNCHANGED <<buf, pos, status, dffVars, alloc, run, prev, inp, locals>>

\* unpack_version applied to the value it returned
UnpackAgain ==
    /\ status = "run"
    /\ last.op = "unpack"
    /\ prev' = <<out>>
    /\ out' = unpack_version(Wide(out))
    /\ last' = [op |-> "unpack_again"]
    /\ UNCHANGED <<buf, pos, status, dffVars, alloc, run, inp, locals>>

NextVer == Unpack \/ UnpackAgain

SpecVer == InitVer /\ [][NextVer]_vars

\* C8: for a raw value whose high 16 bits are nonzero unpack_version
\* returns 0x30000 plus bits 22..31 of raw moved to bits 8..17 plus bits
\* 16..21 of raw (the value of ((raw >> 14) & 0x3FF00) + 0x30000 |
\* ((raw >> 16) & 0x3F)); for a raw value whose high 16 bits are zero it
\* returns raw, and applying it again to that result changes nothing.
C8_UnpackVersion ==
    /\ (last.op = "unpack" /\ inp.hi # 0)
         => out = 196608 + 256 * (inp.hi \div 64) + (inp.hi % 64)
    /\ (last.op = "unpack" /\ inp.hi = 0) => out = inp.lo
    /\ (last.op = "unpack_again" /\ inp.hi = 0) => (out = prev[1] /\ out = inp.lo)

\* A new-style value (San Andreas' 0x1803FFFF) was unpacked to 0x36003.
C8_Witness ==
    last.op = "unpack" /\ inp = [hi |-> 6147, lo |-> 65535] /\ out = 221187

\* An old-style value (0x310) went through unpack_version twice.
C8_OldStyleTwice ==
    last.op = "unpack_again" /\ inp = [hi |-> 0, lo |-> 784] /\ out = 784

-----------------------------------------------------------------------------
(* Section framing (renderware/rw_file.rs) and section type codes          *)
(* (renderware/rw_sections.rs).                                            *)

RwStruct == 1
RwString == 2
RwExtension == 3
RwTexture == 6
RwMaterial == 7
RwMaterialList == 8
RwFrameList == 14
RwGeometry == 15
RwClump == 16
RwAtomic == 20
RwTextureNative == 21
RwTextureDictionary == 22
RwGeometryList == 26
RwSkin == 278
RwAnim == 286
RwNodeName == 39056126

Ok(p, v) == [st |-> "ok", pos |-> p, v |-> v]

(* A function body that is a sequence of statements is a chain of steps    *)
(* over the function's state s: the outcome so far (st), the cursor (pos), *)
(* the Vec::with_capacity requests made so far (al) and one field per      *)
(* local bound so far.  A step leaves a failed state as it is, which is    *)
(* what `?` does to the rest of the body.                                  *)

\* The state at the start of a function called with the cursor at p.
Start(p) == [st |-> "ok", pos |-> p, al |-> <<>>]

\* The state after a read failed with r.
Fail(s, r) == [s EXCEPT !.st = r.st, !.pos = r.pos]

\* The state after `<r>?;`
Advance(s, r) == IF r.st # "ok" THEN Fail(s, r) ELSE [s EXCEPT !.pos = r.pos]

\* The state after `let name = <r>?;`
Bind(s, name, r) ==
    IF r.st # "ok" THEN Fail(s, r) ELSE (name :> r.v) @@ [s EXCEPT !.pos = r.pos]

\* `let name = v;`
Let(s, name, v) == IF s.st # "ok" THEN s ELSE (name :> v) @@ s

\* `let name = V;` for a value V computed from the locals
LetOf(s, name, V(_)) == IF s.st # "ok" THEN s ELSE (name :> V(s)) @@ s

\* `name.push(V);` for a value V computed from the locals
PushTo(s, name, V(_)) ==
    IF s.st # "ok" THEN s ELSE [s EXCEPT ![name] = Append(@, V(s))]

\* `let mut name = Vec::with_capacity(count as usize);` for the local count,
\* whose elements take elem bytes of the stream each.  On a 64-bit target
\* the call panics only for a capacity above isize::MAX (a negative i32 cast
\* to usize); an allocation that does not overflow is taken to succeed.
Reserve(s, name, count, elem) ==
    IF s.st # "ok" THEN s
    ELSE (name :> <<>>) @@
         [s EXCEPT !.st = IF s[count] < 0 THEN "panic" ELSE "ok",
                   !.al = Append(@, [site |-> name, count |-> s[count],
                                     elem |-> elem, rem |-> Remaining(s.pos)])]

\* `Ok(V)` at the end of the body, or the failure that left it; the result
\* carries the function's Vec::with_capacity requests.
Return(s, V(_)) ==
    IF s.st # "ok" THEN [st |-> s.st, pos |-> s.pos, v |-> <<>>, al |-> s.al]
    ELSE [st |-> "ok", pos |-> s.pos, v |-> V(s), al |-> s.al]

\* `let name = self.file.get_stream().read_<T>()?;`
U8(s, name) == IF s.st # "ok" THEN s ELSE Bind(s, name, read_u8(s.pos))
U16(s, name) == IF s.st # "ok" THEN s ELSE Bind(s, name, read_u16(s.pos))
U32(s, name) == IF s.st # "ok" THEN s ELSE Bind(s, name, read_u32(s.pos))
I32(s, name) == IF s.st # "ok" THEN s ELSE Bind(s, name, read_i32(s.pos))
F32(s, name) == IF s.st # "ok" THEN s ELSE Bind(s, name, read_f32(s.pos))

\* `let name = self.file.get_stream().read_string(size)?;`
String(s, name, size) ==
    IF s.st # "ok" THEN s ELSE Bind(s, name, read_string(s.pos, size))

\* read_string(size as usize)? for the local size
StringBy(s, name, size) ==
    IF s.st # "ok" THEN s ELSE Bind(s, name, read_string(s.pos, s[size]))

\* `self.file.get_stream().skip(size)?;`
Skip(s, size) == IF s.st # "ok" THEN s ELSE Advance(s, skip(s.pos, size))

\* skip(size as u64)? for the local size
SkipBy(s, size) == IF s.st # "ok" THEN s ELSE Advance(s, skip(s.pos, s[size]))

\* RwFile::read_section_header
read_section_header(p) ==
    Return(U32(U32(U32(Start(p), "section_type"), "section_size"), "version_number"),
           LAMBDA s : [section_type |-> s.section_type,
                       section_size |-> s.section_size,
                       version_number |-> s.version_number])

\* `let name = self.file.read_section_header()?;`
SectionHeader(s, name) ==
    IF s.st # "ok" THEN s ELSE Bind(s, name, read_section_header(s.pos))

\* `let name = self.file.read_section_header()?.section_size;`
SectionSize(s, name) ==
    LetOf(SectionHeader(s, name), name, LAMBDA t : t[name].section_size)

\* `let name = RwVector3 { x: read_f32()?, y: read_f32()?, z: read_f32()? };`
Vector3(s, name) ==
    LetOf(F32(F32(F32(s, "x"), "y"), "z"), name,
          LAMBDA t : [x |-> t.x, y |-> t.y, z |-> t.z])

\* `let name = RwVector4 { x: .., y: .., z: .., t: .. };`, four f32
Vector4(s, name) ==
    LetOf(F32(F32(F32(F32(s, "x"), "y"), "z"), "t"), name,
          LAMBDA t : [x |-> t.x, y |-> t.y, z |-> t.z, t |-> t.t])

\* `let name = RwColor { r: read_u8()?, g: .., b: .., a: .. };`
Color(s, name) ==
    LetOf(U8(U8(U8(U8(s, "r"), "g"), "b"), "a"), name,
          LAMBDA t : [r |-> t.r, g |-> t.g, b |-> t.b, a |-> t.a])

\* Option<T>: None, or Some of the value.
Some(present, v) == IF present THEN <<v>> ELSE <<>>

-----------------------------------------------------------------------------
(* DFF sub-readers (renderware/dff/dff_parser.rs).                         *)

\* A frame read without the 4 bytes that follow parent_frame.
FrameWithoutPadding(s) ==
    PushTo(I32(Vector3(Vector3(Vector3(Vector3(s,
               "right"), "up"), "at"), "coordinates_offset"), "parent_frame"),
           "frames",
           LAMBDA t : [rotation_matrix |-> [right |-> t.right, up |-> t.up, at |-> t.at],
                       coordinates_offset |-> t.coordinates_offset,
                       parent_frame |-> t.parent_frame])

\* The body of the frame loop: the rotation matrix, the offset, the parent
\* index, skip(4) and the push.
Frame(s) ==
    PushTo(Skip(I32(Vector3(Vector3(Vector3(Vector3(s,
               "right"), "up"), "at"), "coordinates_offset"), "parent_frame"), 4),
           "frames",
           LAMBDA t : [rotation_matrix |-> [right |-> t.right, up |-> t.up, at |-> t.at],
                       coordinates_offset |-> t.coordinates_offset,
                       parent_frame |-> t.parent_frame])

\* for _ in 0..frame_count
RECURSIVE ReadFrames(_)
ReadFrames(s) ==
    IF s.st # "ok" \/ Len(s.frames) >= s.frame_count THEN s ELSE ReadFrames(Frame(s))

read_frame_list(p) ==
    LET s1 == SectionHeader(Start(p), "struct")
        s2 == U32(s1, "frame_count")
        s3 == Reserve(s2, "frames", "frame_count", 56)
    IN  Return(ReadFrames(s3),
               LAMBDA s : [frame_count |-> s.frame_count, frames |-> s.frames])

read_atomic(p) ==
    LET s1 == SectionHeader(Start(p), "struct")
        s2 == U32(s1, "frame_index")
        s3 == U32(s2, "geometry_index")
        s4 == U32(s3, "flags")
        s5 == Skip(s4, 4)
    IN  Return(s5, LAMBDA s : [frame_index |-> s.frame_index,
                               geometry_index |-> s.geometry_index,
                               flags |-> s.flags])

\* if bone_id == 0 { skip(8)? }
AnimNodeKeyFrame(s) ==
    IF s.st # "ok" \/ s.bone_id # 0 THEN s ELSE Skip(s, 8)

\* if bone_count > 0 { for _ in 0..bone_count { bones.push(RwBone { .. }) } }
RECURSIVE ReadBones(_)
ReadBones(s) ==
    IF s.st # "ok" \/ Len(s.bones) >= s.bone_count THEN s
    ELSE ReadBones(PushTo(
             I32(I32(I32(s, "id"), "index"), "flags"),
             "bones",
             LAMBDA t : [bone_id |-> t.id, bone_index |-> t.index, flags |-> t.flags]))

read_anim_node(p) ==
    LET s1 == Skip(Start(p), 4)
        s2 == I32(s1, "bone_id")
        s3 == I32(s2, "bone_count")
        s4 == Reserve(s3, "bones", "bone_count", 12)
        s5 == AnimNodeKeyFrame(s4)
    IN  Return(ReadBones(s5),
               LAMBDA s : [bone_id |-> s.bone_id, bones_count |-> s.bone_count,
                           bones |-> s.bones])

read_texture(p) ==
    LET s1 == SectionHeader(Start(p), "struct")
        s2 == SectionHeader(s1, "texture")
        s3 == U32(s2, "texture_data")
        s4 == SectionSize(s3, "texture_name_size")
        s5 == StringBy(s4, "texture_name", "texture_name_size")
        s6 == SkipBy(SectionSize(s5, "size1"), "size1")
        s7 == SkipBy(SectionSize(s6, "size2"), "size2")
    IN  Return(s7, LAMBDA s :
            [texture_filtering |-> BitAnd(s.texture_data, 255),
             u_addressing |-> BitAnd(s.texture_data, 3840) \div 256,
             v_addressing |-> BitAnd(s.texture_data, 61440) \div 4096,
             uses_mip_levels |-> BitAnd(s.texture_data, 65536) # 0,
             texture_name |-> s.texture_name])

\* The version above which a material carries ambient/specular/diffuse.
MaterialCoefficientsVersion == 197632

\* if header.version_number > 0x30400 { ambient = Some(read_f32()?); .. }
MaterialCoefficients(s) ==
    IF s.st # "ok" \/ ~(s.material.version_number > MaterialCoefficientsVersion) THEN s
    ELSE LetOf(F32(F32(F32(s, "x"), "y"), "z"), "coefficients",
               LAMBDA t : [ambient |-> <<t.x>>, specular |-> <<t.y>>,
                           diffuse |-> <<t.z>>])

\* if is_textured { texture = Some(self.read_texture()?) }
MaterialTexture(s) ==
    IF s.st # "ok" \/ ~(s.is_textured > 0) THEN s
    ELSE Bind(s, "texture", Decoded(read_texture(s.pos), LAMBDA t : <<t>>))

read_material(p) ==
    LET s1 == SectionHeader(Start(p), "struct")
        s2 == SectionHeader(s1, "material")
        s3 == Skip(s2, 4)
        s4 == Color(s3, "color")
        s5 == Skip(s4, 4)
        s6 == U32(s5, "is_textured")
        s7 == Let(s6, "coefficients",
                  [ambient |-> <<>>, specular |-> <<>>, diffuse |-> <<>>])
        s8 == Let(MaterialCoefficients(s7), "texture", <<>>)
    IN  Return(SkipBy(SectionSize(MaterialTexture(s8), "size"), "size"),
               LAMBDA s : [color |-> s.color,
                           is_textured |-> s.is_textured > 0,
                           ambient |-> s.coefficients.ambient,
                           specular |-> s.coefficients.specular,
                           diffuse |-> s.coefficients.diffuse,
                           texture |-> s.texture])

\* The first loop of read_material_list.
RECURSIVE ReadMaterialIndices(_)
ReadMaterialIndices(s) ==
    IF s.st # "ok" \/ Len(s.material_indices) >= s.material_instance_count THEN s
    ELSE ReadMaterialIndices(
             PushTo(I32(s, "index"), "material_indices", LAMBDA t : t.index))

\* read_material_list up to the end of its first loop.
MaterialListHead(p) ==
    LET s1 == SectionHeader(Start(p), "struct")
        s2 == SectionHeader(s1, "material_list")
        s3 == U32(s2, "material_instance_count")
        s4 == Reserve(s3, "material_indices", "material_instance_count", 4)
    IN  Reserve(ReadMaterialIndices(s4), "material_data", "material_instance_count", 0)

\* An alias that always resolves to the first material of the list.
MaterialAtFirst(material_data, material_index) ==
    IF material_index >= 0 /\ material_index < Len(material_data)
    THEN <<material_data[1]>>
    ELSE <<>>

\* material_data[material_index as usize]: Some(element) when the index is
\* within the vector, None (an index-out-of-bounds panic) otherwise; a
\* negative i32 cast to usize is above every length.
MaterialAt(material_data, material_index) ==
    IF material_index >= 0 /\ material_index < Len(material_data)
    THEN <<material_data[material_index + 1]>>
    ELSE <<>>

\* material_data.push(material_data[material_index as usize].clone())
PushAlias(s, e) ==
    IF e = <<>> THEN [s EXCEPT !.st = "panic"]
    ELSE [s EXCEPT !.material_data = Append(@, e[1])]

\* let material_index = material_indices[i as usize], in iteration i of the
\* second loop, which has pushed one material per earlier iteration.
MaterialIndex(s) == s.material_indices[Len(s.material_data) + 1]

\* One iteration of the second loop of read_material_list.
MaterialStep(s) ==
    IF MaterialIndex(s) = 0 - 1
    THEN PushTo(Bind(s, "material", read_material(s.pos)), "material_data",
                LAMBDA t : t.material)
    ELSE PushAlias(s, MaterialAt(s.material_data, MaterialIndex(s)))

\* The second loop of read_material_list.
RECURSIVE MaterialLoop(_)
MaterialLoop(s) ==
    IF s.st # "ok" \/ Len(s.material_data) >= s.material_instance_count THEN s
    ELSE MaterialLoop(MaterialStep(s))

read_material_list(p) ==
    Return(MaterialLoop(MaterialListHead(p)),
           LAMBDA s : [material_instance_count |-> s.material_instance_count,
                       material_data |-> s.material_data])

\* The index loop of read_mesh.
RECURSIVE ReadMeshIndices(_)
ReadMeshIndices(s) ==
    IF s.st # "ok" \/ Len(s.indices) >= s.index_count THEN s
    ELSE ReadMeshIndices(PushTo(U32(s, "index"), "indices", LAMBDA t : t.index))

read_mesh(p) ==
    LET s1 == U32(Start(p), "index_count")
        s2 == U32(s1, "material_index")
        s3 == Reserve(s2, "indices", "index_count", 4)
    IN  Return(ReadMeshIndices(s3),
               LAMBDA s : [index_count |-> s.index_count,
                           material_index |-> s.material_index,
                           indices |-> s.indices])

\* The mesh loop of read_bin_mesh.
RECURSIVE ReadMeshes(_)
ReadMeshes(s) ==
    IF s.st # "ok" \/ Len(s.meshes) >= s.mesh_count THEN s
    ELSE ReadMeshes(PushTo(Bind(s, "mesh", read_mesh(s.pos)), "meshes",
                           LAMBDA t : t.mesh))

read_bin_mesh(p) ==
    LET s1 == SectionHeader(Start(p), "struct")
        s2 == Skip(s1, 4)
        s3 == U32(s2, "mesh_count")
        s4 == Skip(s3, 4)
        s5 == Reserve(s4, "meshes", "mesh_count", 8)
    IN  Return(ReadMeshes(s5),
               LAMBDA s : [mesh_count |-> s.mesh_count, meshes |-> s.meshes])

\* The first loop of read_skin: four u8 per vertex.
RECURSIVE ReadBoneVertexIndices(_)
ReadBoneVertexIndices(s) ==
    IF s.st # "ok" \/ Len(s.bone_vertex_indices) >= s.vertex_count THEN s
    ELSE ReadBoneVertexIndices(PushTo(
             U8(U8(U8(U8(s, "i0"), "i1"), "i2"), "i3"),
             "bone_vertex_indices", LAMBDA t : <<t.i0, t.i1, t.i2, t.i3>>))

\* The second loop of read_skin: four f32 per vertex.
RECURSIVE ReadVertexWeights(_)
ReadVertexWeights(s) ==
    IF s.st # "ok" \/ Len(s.vertex_weights) >= s.vertex_count THEN s
    ELSE ReadVertexWeights(PushTo(
             F32(F32(F32(F32(s, "w0"), "w1"), "w2"), "w3"),
             "vertex_weights", LAMBDA t : <<t.w0, t.w1, t.w2, t.w3>>))

\* The third loop of read_skin: one RwMatrix4 per bone.
RECURSIVE ReadInverseBoneMatrices(_)
ReadInverseBoneMatrices(s) ==
    IF s.st # "ok" \/ Len(s.inverse_bone_matrices) >= s.bone_count THEN s
    ELSE ReadInverseBoneMatrices(PushTo(
             Vector4(Vector4(Vector4(Vector4(s, "right"), "up"), "at"), "transform"),
             "inverse_bone_matrices",
             LAMBDA t : [right |-> t.right, up |-> t.up, at |-> t.at,
                         transform |-> t.transform]))

read_skin(p, vertex_count) ==
    LET s1 == U8(Let(Start(p), "vertex_count", vertex_count), "bone_count")
        s2 == U8(s1, "used_bone_count")
        s3 == U8(s2, "max_weights_per_vertex")
        s4 == SkipBy(Skip(s3, 1), "used_bone_count")
        s5 == ReadBoneVertexIndices(Reserve(s4, "bone_vertex_indices", "vertex_count", 4))
        s6 == ReadVertexWeights(Reserve(s5, "vertex_weights", "vertex_count", 16))
    IN  Return(ReadInverseBoneMatrices(
                   Reserve(s6, "inverse_bone_matrices", "bone_count", 64)),
               LAMBDA s : [bone_count |-> s.bone_count,
                           used_bone_count |-> s.used_bone_count,
                           max_weights_per_vertex |-> s.max_weights_per_vertex,
                           bone_vertex_indices |-> s.bone_vertex_indices,
                           vertex_weights |-> s.vertex_weights,
                           inverse_bone_matrices |-> s.inverse_bone_matrices])

-----------------------------------------------------------------------------
(* read_geometry, one phase per operator; g is the function's state.       *)

\* Below this unpacked version a geometry carries 12 bytes of lighting.
GeometryLightingVersion == 212992

\* (flags & (1 << bit)) != 0
FlagBit(flags, bit) == BitAnd(flags, Pow2(bit)) # 0

\* if version_number < 0x34000 { skip(12)? }
GeoLighting(g) ==
    IF g.st # "ok" \/ ~(g.version_number < GeometryLightingVersion) THEN g
    ELSE Skip(g, 12)

\* flags .. morph_target_count and the version-gated skip
GeoHeader(p, ver) ==
    GeoLighting(U32(U32(U32(U8(U8(U16(Let(Start(p),
        "version_number", ver),
        "flags"),
        "texture_coordinates_count"),
        "native_geometry_flags"),
        "triangle_count"),
        "vertex_count"),
        "morph_target_count"))

\* A prelit test that looks at the bit of the first UV set.
is_geometry_prelit_bit2(g) == FlagBit(g.flags, 2)

is_geometry_prelit(g) == FlagBit(g.flags, 3)
is_textured_uv1(g) == FlagBit(g.flags, 2)
is_textured_uv2(g) == FlagBit(g.flags, 7)

\* for _ in 0..vertex_count { vertex_color_information.push(RwColor { .. }) }
RECURSIVE ReadColors(_)
ReadColors(g) ==
    IF g.st # "ok" \/ Len(g.vertex_color_information) >= g.vertex_count THEN g
    ELSE ReadColors(PushTo(Color(g, "color"), "vertex_color_information",
                           LAMBDA t : t.color))

\* vertex colours, read only for a prelit geometry
GeoColors(g) ==
    IF g.st # "ok" THEN g
    ELSE IF is_geometry_prelit(g) THEN ReadColors(Let(g, "vertex_color_information", <<>>))
    ELSE Let(g, "vertex_color_information", <<>>)

\* for _ in 0..vertex_count { tex_coords.push(RwTextureCoordinate { u, v }) }
RECURSIVE ReadTextureCoordinates(_)
ReadTextureCoordinates(g) ==
    IF g.st # "ok" \/ Len(g.tex_coords) >= g.vertex_count THEN g
    ELSE ReadTextureCoordinates(PushTo(F32(F32(g, "u"), "v"), "tex_coords",
                                       LAMBDA t : [u |-> t.u, v |-> t.v]))

\* for _ in 0..texture_coordinates_count { .. push(tex_coords) }
RECURSIVE ReadTextureChannels(_)
ReadTextureChannels(g) ==
    IF g.st # "ok"
       \/ Len(g.texture_mapping_information) >= g.texture_coordinates_count THEN g
    ELSE ReadTextureChannels(PushTo(
             ReadTextureCoordinates(Let(g, "tex_coords", <<>>)),
             "texture_mapping_information", LAMBDA t : t.tex_coords))

\* texture coordinates, read only when one of the two UV bits is set
GeoTexCoords(g) ==
    IF g.st # "ok" THEN g
    ELSE IF is_textured_uv1(g) \/ is_textured_uv2(g)
         THEN ReadTextureChannels(Let(g, "texture_mapping_information", <<>>))
    ELSE Let(g, "texture_mapping_information", <<>>)

\* for _ in 0..triangle_count: vertex2, vertex1, material_id, vertex3
RECURSIVE ReadTriangles(_)
ReadTriangles(g) ==
    IF g.st # "ok" \/ Len(g.triangle_information) >= g.triangle_count THEN g
    ELSE ReadTriangles(PushTo(
             U16(U16(U16(U16(g, "vertex2"), "vertex1"), "material_id"), "vertex3"),
             "triangle_information",
             LAMBDA t : [vector |-> [x |-> t.vertex1, y |-> t.vertex2,
                                     z |-> t.vertex3],
                         material_id |-> t.material_id]))

GeoTriangles(g) == ReadTriangles(Let(g, "triangle_information", <<>>))

\* for _ in 0..vertex_count { <name>.push(RwVector3 { .. }) }
RECURSIVE ReadVector3s(_, _)
ReadVector3s(g, name) ==
    IF g.st # "ok" \/ Len(g[name]) >= g.vertex_count THEN g
    ELSE ReadVector3s(PushTo(Vector3(g, "vertex"), name, LAMBDA t : t.vertex), name)

\* let mut <name> = Vec::new(); if <flag> { for .. }
GeoVector3s(g, name, flag) ==
    IF g.st # "ok" THEN g
    ELSE IF g[flag] # 0 THEN ReadVector3s(Let(g, name, <<>>), name)
    ELSE Let(g, name, <<>>)

\* bounding sphere, has_vertices, has_normals, vertices and normals
GeoVertices(g) ==
    GeoVector3s(GeoVector3s(U32(U32(F32(Vector3(g,
        "vector"),
        "radius"),
        "has_vertices"),
        "has_normals"),
        "vertex_information", "has_vertices"),
        "normal_information", "has_normals")

\* let material_list = self.read_material_list()?;
GeoMaterialList(g) ==
    IF g.st # "ok" THEN g ELSE Bind(g, "material_list", read_material_list(g.pos))

\* let bin_mesh = self.read_bin_mesh()?;
GeoReadBinMesh(g) ==
    IF g.st # "ok" THEN g ELSE Bind(g, "bin_mesh", read_bin_mesh(g.pos))

\* the wrapper header, the position snapshot and the bin mesh
GeoBinMesh(g) ==
    GeoReadBinMesh(LetOf(SectionSize(g, "section_size"), "position",
                         LAMBDA t : t.pos))

\* if next_header.section_type == RwSkin { skin = Some(read_skin(..)?) }
GeoReadSkin(g) ==
    IF g.st # "ok" \/ g.next_header.section_type # RwSkin THEN g
    ELSE Bind(g, "skin", Decoded(read_skin(g.pos, g.vertex_count), LAMBDA t : <<t>>))

\* The header read after the bin mesh taken for absent when it cannot be
\* read: the geometry then has no skin.
GeoSkinIfHeaderReadable(g) ==
    IF g.st # "ok" \/ SectionHeader(g, "next_header").st = "ok"
    THEN GeoReadSkin(SectionHeader(Let(g, "skin", <<>>), "next_header"))
    ELSE Let(Let(g, "skin", <<>>), "next_header", [section_type |-> 0])

\* The header read after the bin mesh and a skin read after it whatever the
\* header's type.
GeoSkinOfAnyHeader(g) ==
    IF SectionHeader(g, "next_header").st # "ok"
    THEN SectionHeader(Let(g, "skin", <<>>), "next_header")
    ELSE Bind(SectionHeader(Let(g, "skin", <<>>), "next_header"), "skin",
              Decoded(read_skin(g.pos + 12, g.vertex_count), LAMBDA t : <<t>>))

\* the header read after the bin mesh, and the skin when it is a skin header
GeoSkin(g) == GeoReadSkin(SectionHeader(Let(g, "skin", <<>>), "next_header"))

\* The end of read_geometry without the set_position: the cursor stays
\* where the header read and the skin reader left it.
GeoResyncOmitted(g) == g

\* A set_position to the declared size alone, without the snapshot.
GeoResyncToSize(g) ==
    IF g.st # "ok" THEN g ELSE Advance(g, set_position(g.section_size))

\* set_position(position + section_size as u64)
GeoResync(g) ==
    IF g.st # "ok" THEN g ELSE Advance(g, set_position(g.position + g.section_size))

\* The RwGeometry built from the locals.
RwGeometryOf(g) ==
    [vertex_color_information |-> g.vertex_color_information,
     texture_coordinates_count |-> g.texture_coordinates_count,
     texture_mapping_information |-> g.texture_mapping_information,
     has_vertices |-> g.has_vertices # 0,
     has_normals |-> g.has_normals # 0,
     triangle_information |-> g.triangle_information,
     vertex_information |-> g.vertex_information,
     normal_information |-> g.normal_information,
     bounding_sphere |-> [vector |-> g.vector, radius |-> g.radius],
     material_list |-> g.material_list,
     bin_mesh |-> g.bin_mesh,
     skin |-> g.skin]

\* ver is the function's version_number argument.
read_geometry(p, ver) ==
    Return(GeoResync(GeoSkin(GeoBinMesh(GeoMaterialList(GeoVertices(
               GeoTriangles(GeoTexCoords(GeoColors(GeoHeader(p, ver))))))))),
           RwGeometryOf)

\* geometries.push(self.read_geometry(unpack_version(header.version_number))?)
PushGeometry(s) ==
    IF s.st # "ok" THEN s
    ELSE PushTo(Bind(s, "geometry",
                     read_geometry(s.pos, unpack_version(Wide(s.header.version_number)))),
                "geometries", LAMBDA t : t.geometry)

\* The loop of read_geometry_list.
RECURSIVE ReadGeometries(_)
ReadGeometries(s) ==
    IF s.st # "ok" \/ Len(s.geometries) >= s.geometric_object_count THEN s
    ELSE ReadGeometries(PushGeometry(
             SectionHeader(SectionHeader(s, "geometry_header"), "struct")))

read_geometry_list(p) ==
    LET s1 == SectionHeader(Start(p), "header")
        s2 == U32(s1, "geometric_object_count")
        s3 == Reserve(s2, "geometries", "geometric_object_count", 24)
    IN  Return(ReadGeometries(s3),
               LAMBDA s : [geometric_object_count |-> s.geometric_object_count,
                           geometries |-> s.geometries])

-----------------------------------------------------------------------------
(* The IFP decoder (renderware/ifp/ifp_parser.rs).  A keyframe value of    *)
(* the ANP3 path, `i16 as f32 / d`, is kept as the fraction [num, den]     *)
(* (both conversions are exact); a value of the ANPK path is the f32's     *)
(* bit pattern.                                                            *)

\* A conversion that reads the two bytes as unsigned.
FixedUnsigned(s, name, den) ==
    IF s.st # "ok" THEN s
    ELSE Bind(s, name, Decoded(read_u16(s.pos), LAMBDA n : [num |-> n, den |-> den]))

\* let name = read_i16()? as f32 / den;
Fixed(s, name, den) ==
    IF s.st # "ok" THEN s
    ELSE Bind(s, name, Decoded(read_i16(s.pos), LAMBDA n : [num |-> n, den |-> den]))

\* The f32 literals 0.0 and 1.0 of either path.
FixedZero == [num |-> 0, den |-> 1]
FixedOne == [num |-> 1, den |-> 1]
FloatZero == <<0, 0, 0, 0>>
FloatOne == <<0, 0, 128, 63>>

\* str::as_bytes: the UTF-8 encoding of the code points the model's strings
\* hold (ASCII and U+FFFD).
RECURSIVE as_bytes(_)
as_bytes(str) ==
    IF str = <<>> THEN <<>>
    ELSE (IF Head(str) = ReplacementChar THEN <<239, 191, 189>> ELSE <<Head(str)>>)
         \o as_bytes(Tail(str))

\* `if keyframe_type.as_bytes()[i] == c`: the index panics past the end.
ByteIs(s, name, i, c) ==
    IF s.st # "ok" THEN s
    ELSE IF i >= Len(as_bytes(s.keyframe_type)) THEN [s EXCEPT !.st = "panic"]
    ELSE Let(s, name, as_bytes(s.keyframe_type)[i + 1] = c)

\* keyframes.push(RwIfpKeyframe { time, position, rotation, scale })
PushKeyframe(s) ==
    PushTo(s, "keyframes", LAMBDA t :
        [time |-> t.time,
         position |-> [x |-> t.px, y |-> t.py, z |-> t.pz],
         rotation |-> [w |-> t.qw, x |-> t.qx, y |-> t.qy, z |-> t.qz],
         scale |-> [x |-> t.sx, y |-> t.sy, z |-> t.sz]])

\* let (px, py, pz) = if keyframe_type.as_bytes()[2] == b'T' { three reads }
\*                    else { (0.0, 0.0, 0.0) };  (ANP3)
Anp3Position(s) ==
    IF s.st # "ok" THEN s
    ELSE IF s.has_position THEN Fixed(Fixed(Fixed(s, "px", 1024), "py", 1024), "pz", 1024)
    ELSE Let(Let(Let(s, "px", FixedZero), "py", FixedZero), "pz", FixedZero)

\* One iteration of the keyframe loop of read_anp3_bone.
Anp3KeyframeStep(s) ==
    PushKeyframe(
        Let(Let(Let(
        Anp3Position(ByteIs(Fixed(Fixed(Fixed(Fixed(Fixed(s,
            "qx", 4096), "qy", 4096), "qz", 4096), "qw", 4096), "time", 1),
            "has_position", 2, 84)),
        "sx", FixedOne), "sy", FixedOne), "sz", FixedOne))

\* The keyframe loop of read_anp3_bone.
RECURSIVE ReadAnp3Keyframes(_)
ReadAnp3Keyframes(s) ==
    IF s.st # "ok" \/ Len(s.keyframes) >= s.keyframes_count THEN s
    ELSE ReadAnp3Keyframes(Anp3KeyframeStep(s))

\* if keyframe_type_num == 4 { "KRT0" } else { "KR00" }
Anp3KeyframeType(s) ==
    IF s.keyframe_type_num = 4 THEN <<75, 82, 84, 48>> ELSE <<75, 82, 48, 48>>

\* read_anp3_bone up to its keyframe loop.
Anp3BoneHead(p) ==
    LET s1 == String(Start(p), "name", 24)
        s2 == U32(s1, "keyframe_type_num")
        s3 == U32(s2, "keyframes_count")
        s4 == LetOf(s3, "keyframe_type", Anp3KeyframeType)
        s5 == I32(s4, "bone_id")
    IN  Reserve(s5, "keyframes", "keyframes_count", 10)

\* RwIfpBone { name, keyframe_type, use_bone_id: true, bone_id, keyframes }
Anp3BoneOf(s) ==
    [name |-> s.name, keyframe_type |-> s.keyframe_type, use_bone_id |-> TRUE,
     bone_id |-> s.bone_id, keyframes |-> s.keyframes]

read_anp3_bone(p) == Return(ReadAnp3Keyframes(Anp3BoneHead(p)), Anp3BoneOf)

\* The loop of read_anp3_animation.
RECURSIVE ReadAnp3Bones(_)
ReadAnp3Bones(s) ==
    IF s.st # "ok" \/ Len(s.bones) >= s.bones_count THEN s
    ELSE ReadAnp3Bones(PushTo(Bind(s, "bone", read_anp3_bone(s.pos)), "bones",
                              LAMBDA t : t.bone))

read_anp3_animation(p) ==
    LET s1 == String(Start(p), "name", 24)
        s2 == U32(s1, "bones_count")
        s3 == Skip(s2, 8)
        s4 == Reserve(s3, "bones", "bones_count", 36)
    IN  Return(ReadAnp3Bones(s4), LAMBDA s : [name |-> s.name, bones |-> s.bones])

\* The loop of read_anp3.
RECURSIVE ReadAnp3Animations(_)
ReadAnp3Animations(s) ==
    IF s.st # "ok" \/ Len(s.animations) >= s.animations_count THEN s
    ELSE ReadAnp3Animations(PushTo(Bind(s, "animation", read_anp3_animation(s.pos)),
                                   "animations", LAMBDA t : t.animation))

read_anp3(p) ==
    LET s1 == Skip(Start(p), 4)
        s2 == U32(s1, "size")
        s3 == String(s2, "name", 24)
        s4 == U32(s3, "animations_count")
        s5 == Reserve(s4, "animations", "animations_count", 36)
    IN  Return(ReadAnp3Animations(s5),
               LAMBDA s : [version |-> "ANP3", name |-> s.name,
                           animations |-> s.animations])

\* let (px, py, pz) = if keyframe_type.as_bytes()[2] == b'T' { three reads }
\*                    else { (0.0, 0.0, 0.0) };  (ANPK)
AnpkPosition(s) ==
    IF s.st # "ok" THEN s
    ELSE IF s.has_position THEN F32(F32(F32(s, "px"), "py"), "pz")
    ELSE Let(Let(Let(s, "px", FloatZero), "py", FloatZero), "pz", FloatZero)

\* let (sx, sy, sz) = if keyframe_type.as_bytes()[3] == b'S' { three reads }
\*                    else { (1.0, 1.0, 1.0) };
AnpkScale(s) ==
    IF s.st # "ok" THEN s
    ELSE IF s.has_scale THEN F32(F32(F32(s, "sx"), "sy"), "sz")
    ELSE Let(Let(Let(s, "sx", FloatOne), "sy", FloatOne), "sz", FloatOne)

\* The keyframe loop of read_anpk_bone.
RECURSIVE ReadAnpkKeyframes(_)
ReadAnpkKeyframes(s) ==
    IF s.st # "ok" \/ Len(s.keyframes) >= s.keyframes_count THEN s
    ELSE ReadAnpkKeyframes(PushKeyframe(
             F32(AnpkScale(ByteIs(AnpkPosition(ByteIs(F32(F32(F32(F32(s,
                 "qx"), "qy"), "qz"), "qw"),
                 "has_position", 2, 84)),
                 "has_scale", 3, 83)),
                 "time")))

\* The anim_len of a bone record that carries a bone id.
AnimLenWithBoneId == 44

\* let bone_id = if use_bone_id { read_i32()? } else { skip(8)?; 0 };
AnpkBoneId(s) ==
    IF s.st # "ok" THEN s
    ELSE IF s.anim_len = AnimLenWithBoneId THEN I32(s, "bone_id")
    ELSE Let(Skip(s, 8), "bone_id", 0)

\* if keyframes_count > 0 { keyframe_type = read_string(4)?; skip(4)?; for .. }
AnpkKeyframes(s) ==
    IF s.st # "ok" \/ ~(s.keyframes_count > 0) THEN s
    ELSE ReadAnpkKeyframes(Skip(String(s, "keyframe_type", 4), 4))

read_anpk_bone(p) ==
    LET s1 == Skip(Skip(Start(p), 8), 4)
        s2 == U32(s1, "anim_len")
        s3 == String(s2, "name", 28)
        s4 == U32(s3, "keyframes_count")
        s5 == AnpkBoneId(Skip(s4, 8))
        s6 == Let(Let(s5, "keyframe_type", <<75, 48, 48, 48>>), "keyframes", <<>>)
    IN  Return(AnpkKeyframes(s6),
               LAMBDA s : [name |-> s.name,
                           keyframe_type |-> s.keyframe_type,
                           use_bone_id |-> s.anim_len = AnimLenWithBoneId,
                           bone_id |-> s.bone_id,
                           keyframes |-> s.keyframes])

\* (4 - len % 4) % 4
AlignLen(len) == (4 - (len % 4)) % 4

\* The loop of read_anpk_animation.
RECURSIVE ReadAnpkBones(_)
ReadAnpkBones(s) ==
    IF s.st # "ok" \/ Len(s.bones) >= s.bones_count THEN s
    ELSE ReadAnpkBones(PushTo(Bind(s, "bone", read_anpk_bone(s.pos)), "bones",
                              LAMBDA t : t.bone))

read_anpk_animation(p) ==
    LET s1 == Skip(Start(p), 4)
        s2 == U32(s1, "name_len")
        s3 == StringBy(s2, "name", "name_len")
        s4 == SkipBy(LetOf(s3, "name_align_len", LAMBDA t : AlignLen(t.name_len)),
                     "name_align_len")
        s5 == Skip(s4, 16)
        s6 == U32(s5, "bones_count")
        s7 == Skip(s6, 4)
        s8 == Reserve(s7, "bones", "bones_count", 56)
    IN  Return(ReadAnpkBones(s8), LAMBDA s : [name |-> s.name, bones |-> s.bones])

\* let name = read_string((info_len - 4) as usize)?: for info_len < 4 the
\* u32 subtraction overflows; a build with overflow checks panics, one
\* without wraps to a length just below 2^32, which no buffer of the model
\* holds.
InfoName(s) ==
    IF s.st # "ok" THEN s
    ELSE IF s.info_len >= 4 THEN String(s, "name", s.info_len - 4)
    ELSE IF s.build = "debug" THEN [s EXCEPT !.st = "panic"]
    ELSE [s EXCEPT !.st = "eof"]

\* The loop of read_anpk.
RECURSIVE ReadAnpkAnimations(_)
ReadAnpkAnimations(s) ==
    IF s.st # "ok" \/ Len(s.animations) >= s.animations_count THEN s
    ELSE ReadAnpkAnimations(PushTo(Bind(s, "animation", read_anpk_animation(s.pos)),
                                   "animations", LAMBDA t : t.animation))

\* build is how the crate was compiled: with ("debug") or without
\* ("release") overflow checks.
read_anpk(p, build) ==
    LET s1 == Skip(Let(Start(p), "build", build), 4)
        s2 == U32(s1, "size")
        s3 == Skip(s2, 4)
        s4 == U32(s3, "info_len")
        s5 == U32(s4, "animations_count")
        s6 == InfoName(s5)
        s7 == SkipBy(LetOf(s6, "name_align_len", LAMBDA t : AlignLen(t.info_len)),
                     "name_align_len")
        s8 == Reserve(s7, "animations", "animations_count", 40)
    IN  Return(ReadAnpkAnimations(s8),
               LAMBDA s : [version |-> "ANPK", name |-> s.name,
                           animations |-> s.animations])

-----------------------------------------------------------------------------
(* TXD readers (renderware/txd/txd_parser.rs).                             *)

\* PaletteType and PlatformType (renderware/utils/image_format_enums.rs)
PaletteNone == 0
Palette8 == 2
D3d8 == 8
D3d9 == 9

\* let size = if palette_type == Palette8 { 1024 } else if depth == 4 { 64 }
\* else { 128 }; read(size)
read_palette(p, palette_type, depth) ==
    read(p, IF palette_type = Palette8 THEN 1024 ELSE IF depth = 4 THEN 64 ELSE 128)

\* The decimal digits of n, as format!("{}", n) writes them.
RECURSIVE Decimal(_)
Decimal(n) == IF n < 10 THEN <<48 + n>> ELSE Decimal(n \div 10) \o <<48 + (n % 10)>>

\* format!("DXT{}", compression_flags)
DxtName(compression_flags) == <<68, 88, 84>> \o Decimal(compression_flags)

\* The match of get_bitmap_with_dxt: Some(format), or None for `_`.
DxtFormat(dxt_type) ==
    IF dxt_type = DxtName(1) THEN <<"Bc1">>
    ELSE IF dxt_type = DxtName(2) \/ dxt_type = DxtName(3) THEN <<"Bc2">>
    ELSE IF dxt_type = DxtName(4) \/ dxt_type = DxtName(5) THEN <<"Bc3">>
    ELSE <<>>

\* The bytes of the 4x4 blocks of a width x height image in a format: 8 per
\* block for Bc1, 16 for Bc2 and Bc3.
CompressedSize(format, width, height) ==
    ((width + 3) \div 4) * ((height + 3) \div 4) * (IF format = "Bc1" THEN 8 ELSE 16)

\* texpresso::Format::decompress, a library outside the repository: the
\* pixels are a function of the format, the dimensions and the blocks read,
\* kept here as the record of those; slicing a raster shorter than the
\* blocks panics.
decompress(format, raster, width, height) ==
    IF Len(raster) < CompressedSize(format, width, height)
    THEN [st |-> "panic", v |-> <<>>]
    ELSE [st |-> "ok",
          v |-> [format |-> format, width |-> width, height |-> height,
                 blocks |-> SubSeq(raster, 1, CompressedSize(format, width, height))]]

get_bitmap_with_dxt(dxt_type, raster, width, height) ==
    IF DxtFormat(dxt_type) = <<>> THEN [st |-> "ok", v |-> <<>>]
    ELSE decompress(DxtFormat(dxt_type)[1], raster, width, height)

\* (raster_format >> 13) & 0b11
palette_type(s) == BitAnd(s.raster_format \div 8192, 3)

\* (compression_flags & (1 << 3)) != 0
compressed(s) == BitAnd(s.compression_flags, 8) # 0

\* let palette = if palette_type != PaletteNone { read_palette(..)? }
\* else { Vec::new() };
Palette(s) ==
    IF s.st # "ok" THEN s
    ELSE IF palette_type(s) # PaletteNone
    THEN Bind(s, "palette", read_palette(s.pos, palette_type(s), s.depth))
    ELSE Let(s, "palette", <<>>)

\* The bitmap of the first mipmap level without the test of the palette.
BitmapWithoutPaletteTest(s) ==
    IF s.platform_id = D3d8 /\ s.compression_flags # 0
    THEN get_bitmap_with_dxt(DxtName(s.compression_flags), s.raster, s.width, s.height)
    ELSE IF s.platform_id = D3d9 /\ compressed(s)
    THEN get_bitmap_with_dxt(s.d3d_format, s.raster, s.width, s.height)
    ELSE [st |-> "ok", v |-> <<>>]

\* The bitmap of the first mipmap level.
Bitmap(s) ==
    IF s.palette # <<>> THEN [st |-> "ok", v |-> <<>>]
    ELSE IF s.platform_id = D3d8 /\ s.compression_flags # 0
    THEN get_bitmap_with_dxt(DxtName(s.compression_flags), s.raster, s.width, s.height)
    ELSE IF s.platform_id = D3d9 /\ compressed(s)
    THEN get_bitmap_with_dxt(s.d3d_format, s.raster, s.width, s.height)
    ELSE [st |-> "ok", v |-> <<>>]

\* mipmaps.push(bitmap), or the panic that computing the bitmap ended in
PushBitmap(s, bitmap) ==
    IF bitmap.st # "ok" THEN [s EXCEPT !.st = bitmap.st]
    ELSE [s EXCEPT !.mipmaps = Append(@, bitmap.v)]

\* The bitmap computed and pushed for every level, not only the first.
LevelBitmapOfEveryLevel(s) == IF s.st # "ok" THEN s ELSE PushBitmap(s, Bitmap(s))

\* if i == 0 { let bitmap = ..; mipmaps.push(bitmap); }
LevelBitmap(s) == IF s.st # "ok" \/ s.i # 0 THEN s ELSE PushBitmap(s, Bitmap(s))

\* let raster = self.file.get_stream().read(raster_size as usize)?;
Raster(s) == IF s.st # "ok" THEN s ELSE Bind(s, "raster", read(s.pos, s.raster_size))

\* for i in 0..mipmap_count
RECURSIVE ReadMipmaps(_)
ReadMipmaps(s) ==
    IF s.st # "ok" \/ s.i >= s.mipmap_count THEN s
    ELSE ReadMipmaps(LetOf(LevelBitmap(Raster(U32(s, "raster_size"))), "i",
                           LAMBDA t : t.i + 1))

\* read_texture_native up to the mipmap loop.
TextureNativeHead(p) ==
    Let(Let(Palette(
        U8(U8(U8(U8(U16(U16(String(U32(String(String(U32(U32(
            SectionHeader(SectionHeader(Start(p), "struct"), "texture_native"),
            "platform_id"), "flags"), "texture_name", 32), "mask_name", 32),
            "raster_format"), "d3d_format", 4), "width"), "height"),
            "depth"), "mipmap_count"), "raster_type"), "compression_flags")),
        "mipmaps", <<>>), "i", 0)

read_texture_native(p) ==
    Return(SkipBy(SectionSize(ReadMipmaps(TextureNativeHead(p)), "size"), "size"),
           LAMBDA s : [platform_id |-> s.platform_id,
                       filter_mode |-> BitAnd(s.flags, 255),
                       u_addressing |-> BitAnd(s.flags, 3840) \div 256,
                       v_addressing |-> BitAnd(s.flags, 61440) \div 4096,
                       texture_name |-> s.texture_name,
                       mask_name |-> s.mask_name,
                       raster_format |-> s.raster_format,
                       d3d_format |-> s.d3d_format,
                       width |-> s.width,
                       height |-> s.height,
                       depth |-> s.depth,
                       mipmap_count |-> s.mipmap_count,
                       raster_type |-> s.raster_type,
                       alpha |-> BitAnd(s.compression_flags, 1) # 0,
                       cube_texture |-> BitAnd(s.compression_flags, 2) # 0,
                       auto_mip_maps |-> BitAnd(s.compression_flags, 4) # 0,
                       compressed |-> compressed(s),
                       mipmaps |-> s.mipmaps])

\* read_texture_dictionary up to its loop.
TextureDictionaryHead(p) ==
    Reserve(Skip(U16(SectionHeader(SectionHeader(Start(p), "struct"),
                                   "texture_dictionary"),
                     "texture_count"), 2),
            "texture_natives", "texture_count", 124)

\* texture_natives.push(self.read_texture_native()?)
TextureNativeStep(s) ==
    PushTo(Bind(s, "texture_native", read_texture_native(s.pos)), "texture_natives",
           LAMBDA t : t.texture_native)

\* for _ in 0..texture_count
RECURSIVE ReadTextureNatives(_)
ReadTextureNatives(s) ==
    IF s.st # "ok" \/ Len(s.texture_natives) >= s.texture_count THEN s
    ELSE ReadTextureNatives(TextureNativeStep(s))

\* The rest of read_texture_dictionary after its loop.
TextureDictionaryTail(s) ==
    Return(SkipBy(SectionSize(s, "size"), "size"),
           LAMBDA t : [texture_count |-> t.texture_count,
                       texture_natives |-> t.texture_natives])

read_texture_dictionary(p) ==
    TextureDictionaryTail(ReadTextureNatives(TextureDictionaryHead(p)))

\* TxdParser::parse: Ok(RwTxd { texture_dictionary: .. })
RwTxdOf(r) ==
    IF r.st # "ok" THEN r ELSE [r EXCEPT !.v = [texture_dictionary |-> r.v]]

-----------------------------------------------------------------------------
(* Input buffers.  The operators below write the byte sequences the        *)
(* decoders are run on; they follow the layout the readers expect and are  *)
(* not part of the program.                                                *)

LE16(n) == <<n % 256, (n \div 256) % 256>>

\* The 4 little-endian bytes of n, for -2^31 <= n < 2^31.
LE32(n) ==
    LET m == IF n < 0 THEN (n + 2147483647) + 1 ELSE n
    IN  <<m % 256, (m \div 256) % 256, (m \div 65536) % 256,
          (m \div 16777216) + (IF n < 0 THEN 128 ELSE 0)>>

\* An f32 bit pattern that differs with k.
F32Bits(k) == <<k, 0, 128, 63>>

Zeros(n) == [i \in 1..n |-> 0]

RECURSIVE Concat(_)
Concat(ss) == IF ss = <<>> THEN <<>> ELSE Head(ss) \o Concat(Tail(ss))

\* The buffer without its last cut bytes.
Truncate(b, cut) == SubSeq(b, 1, IF cut >= Len(b) THEN 0 ELSE Len(b) - cut)

\* Packed versions: San Andreas (unpacks to 0x36003), Vice City (unpacks
\* to 0x33002) and an old-style number (0x310).
PackedSA == 6147 * 65536 + 65535
PackedVC == 3074 * 65536 + 65535
OldStyle310 == 3 * 256 + 16

Hdr(type, size, ver) == LE32(type) \o LE32(size) \o LE32(ver)

\* A section: its header, declaring the payload's length, and the payload.
Sec(type, payload, ver) == Hdr(type, Len(payload), ver) \o payload

Ascii(str) ==
    CASE str = "wheel" -> <<119, 104, 101, 101, 108>>
      [] str = "Wheel_lf" -> <<87, 104, 101, 101, 108, 95, 108, 102>>
      [] str = "CHASSIS" -> <<67, 72, 65, 83, 83, 73, 83>>
      [] str = "door" -> <<100, 111, 111, 114>>
      [] str = "tex" -> <<116, 101, 120>>
      [] str = "ANP3" -> <<65, 78, 80, 51>>
      [] str = "ANPK" -> <<65, 78, 80, 75>>
      [] str = "INFO" -> <<73, 78, 70, 79>>
      [] str = "KR00" -> <<75, 82, 48, 48>>
      [] str = "KRT0" -> <<75, 82, 84, 48>>
      [] str = "KRTS" -> <<75, 82, 84, 83>>
      [] str = "K000" -> <<75, 48, 48, 48>>

\* One frame of a frame list: 12 floats, the parent index, 4 flag bytes.
EncFrame(k, parent) ==
    Concat([i \in 1..12 |-> F32Bits(16 * k + i)]) \o LE32(parent) \o Zeros(4)

\* A frame-list section declaring count frames and holding those given.
EncFrameList(count, parents) ==
    Sec(RwFrameList,
        Sec(RwStruct,
            LE32(count) \o Concat([i \in 1..Len(parents) |-> EncFrame(i, parents[i])]),
            PackedSA),
        PackedSA)

\* An atomic section binding geometry_index to frame_index.
EncAtomic(frame_index, geometry_index) ==
    Sec(RwAtomic,
        Sec(RwStruct, LE32(frame_index) \o LE32(geometry_index) \o LE32(5) \o Zeros(4),
            PackedSA),
        PackedSA)

\* An anim node: version tag, bone id, declared bone count, the flags and
\* key frame size of a root node, and the bones given.
EncAnimNode(bone_id, bone_count, bones) ==
    LE32(256) \o LE32(bone_id) \o LE32(bone_count)
    \o (IF bone_id = 0 THEN Zeros(8) ELSE <<>>)
    \o Concat([i \in 1..bones |-> LE32(10 + i) \o LE32(i - 1) \o LE32(i % 2)])

EncExtension(payload) == Sec(RwExtension, payload, PackedSA)

\* A texture section as read_texture expects it.
EncTexture ==
    Hdr(RwTexture, 52, PackedSA) \o Hdr(RwStruct, 4, PackedSA) \o LE32(69894)
    \o Sec(RwString, Ascii("tex") \o Zeros(1), PackedSA)
    \o Sec(RwString, Zeros(4), PackedSA)
    \o Hdr(RwExtension, 0, PackedSA)

\* A material section: k marks its colour, ver is its own version.
EncMaterial(k, textured, ver) ==
    Hdr(RwMaterial, 28, ver) \o Hdr(RwStruct, 28, ver)
    \o Zeros(4) \o <<k, k + 1, k + 2, 255>> \o Zeros(4)
    \o LE32(IF textured THEN 1 ELSE 0)
    \o (IF ver > MaterialCoefficientsVersion THEN F32Bits(k) \o F32Bits(k + 1) \o F32Bits(k + 2) ELSE <<>>)
    \o (IF textured THEN EncTexture ELSE <<>>)
    \o Sec(RwExtension, Zeros(IF textured THEN 4 ELSE 0), ver)

\* The materials of a list, one for each -1 among the indices, in order.
RECURSIVE EncMaterials(_, _, _)
EncMaterials(indices, k, ver) ==
    IF indices = <<>> THEN <<>>
    ELSE (IF Head(indices) = 0 - 1 THEN EncMaterial(k, (k \div 10) % 2 = 0, ver) ELSE <<>>)
         \o EncMaterials(Tail(indices), k + 10, ver)

\* A material list declaring count entries with the indices given.
EncMaterialList(count, indices, ver) ==
    Hdr(RwMaterialList, 16, ver) \o Hdr(RwStruct, 4, ver)
    \o LE32(count)
    \o Concat([i \in 1..Len(indices) |-> LE32(indices[i])])
    \o EncMaterials(indices, 10, ver)

\* A bin mesh section with the meshes given as their index counts.
EncBinMesh(index_counts) ==
    Sec(1294,
        LE32(0) \o LE32(Len(index_counts)) \o LE32(0)
        \o Concat([m \in 1..Len(index_counts) |->
               LE32(index_counts[m]) \o LE32(m - 1)
               \o Concat([i \in 1..index_counts[m] |-> LE32(i)])]),
        PackedSA)

\* A skin section for vertex_count vertices and bone_count bones.
EncSkin(vertex_count, bone_count) ==
    Sec(RwSkin,
        <<bone_count, 1, 4, 0>> \o Zeros(1)
        \o Concat([i \in 1..vertex_count |-> <<i, 0, 0, 0>>])
        \o Concat([i \in 1..vertex_count |-> F32Bits(i) \o F32Bits(0) \o F32Bits(0) \o F32Bits(0)])
        \o Concat([i \in 1..(16 * bone_count) |-> F32Bits(i)]),
        PackedSA)

\* What follows the bin mesh inside the geometry's extension.
EncAfterBinMesh(g) ==
    CASE g.after = "skin" -> EncSkin(g.vertex_count, 1)
      [] g.after = "plugin" -> Sec(288, Zeros(4), PackedSA)
      [] g.after = "plugin_skin" -> Sec(288, Zeros(4), PackedSA) \o EncSkin(g.vertex_count, 1)
      [] g.after = "none" -> <<>>

\* A geometry as read_geometry expects it, written from its parameters:
\* the arrays are present as the flags say.
EncGeometry(g, ver) ==
    LE16(g.flags) \o <<g.texture_coordinates_count, 0>>
    \o LE32(g.triangle_count) \o LE32(g.vertex_count) \o LE32(1)
    \o (IF unpack_version(Wide(ver)) < GeometryLightingVersion THEN Zeros(12) ELSE <<>>)
    \o (IF FlagBit(g.flags, 3)
        THEN Concat([i \in 1..g.vertex_count |-> <<i, 200, 201, 202>>]) ELSE <<>>)
    \o (IF FlagBit(g.flags, 2) \/ FlagBit(g.flags, 7)
        THEN Concat([c \in 1..g.texture_coordinates_count |->
                 Concat([i \in 1..g.vertex_count |-> F32Bits(10 * c + i) \o F32Bits(100 + i)])])
        ELSE <<>>)
    \o Concat([i \in 1..g.triangle_count |-> LE16(2) \o LE16(1) \o LE16(7) \o LE16(3)])
    \o F32Bits(1) \o F32Bits(2) \o F32Bits(3) \o F32Bits(4)
    \o LE32(IF g.has_vertices THEN 1 ELSE 0) \o LE32(IF g.has_normals THEN 1 ELSE 0)
    \o (IF g.has_vertices
        THEN Concat([i \in 1..g.vertex_count |-> F32Bits(i) \o F32Bits(50) \o F32Bits(51)]) ELSE <<>>)
    \o (IF g.has_normals
        THEN Concat([i \in 1..g.vertex_count |-> F32Bits(i) \o F32Bits(60) \o F32Bits(61)]) ELSE <<>>)
    \o EncMaterialList(Len(g.material_indices), g.material_indices, ver)
    \o Sec(RwExtension, EncBinMesh(g.meshes) \o EncAfterBinMesh(g), ver)

\* A geometry-list section holding the geometries given.
EncGeometryList(count, gs, ver) ==
    Sec(RwGeometryList,
        Hdr(RwStruct, 4, ver) \o LE32(count)
        \o Concat([i \in 1..Len(gs) |->
               Hdr(RwGeometry, 1, ver) \o Hdr(RwStruct, 1, ver) \o EncGeometry(gs[i], ver)]),
        ver)

-----------------------------------------------------------------------------
(* DffParser::parse as a state machine: one step is one iteration of the   *)
(* section loop (or the end of the call).                                  *)

\* The sections a model buffer is put together from.
PlainGeometry ==
    [flags |-> 0, texture_coordinates_count |-> 0, triangle_count |-> 1,
     vertex_count |-> 1, has_vertices |-> TRUE, has_normals |-> FALSE,
     material_indices |-> <<0 - 1>>, meshes |-> <<1>>, after |-> "plugin"]

SkinnedGeometry ==
    [flags |-> 12, texture_coordinates_count |-> 1, triangle_count |-> 0,
     vertex_count |-> 2, has_vertices |-> TRUE, has_normals |-> TRUE,
     material_indices |-> <<0 - 1, 0>>, meshes |-> <<>>, after |-> "skin"]

\* A geometry whose wrapper ends with the bin mesh.
BareGeometry ==
    [flags |-> 0, texture_coordinates_count |-> 0, triangle_count |-> 1,
     vertex_count |-> 1, has_vertices |-> TRUE, has_normals |-> FALSE,
     material_indices |-> <<0 - 1>>, meshes |-> <<1>>, after |-> "none"]

\* The bytes b, which end with a wrapper header and tail_len bytes of
\* payload, with the declared size of that header set to 0.
WithWrapperSizeZero(b, tail_len) ==
    [i \in 1..Len(b) |->
        IF i \in (Len(b) - tail_len - 7)..(Len(b) - tail_len - 4) THEN 0 ELSE b[i]]

DffSectionIds ==
    {"clump", "clump_vc", "clump_zero", "struct", "end", "unknown", "unknown_far",
     "frames0", "frames2", "frames_far", "ext_name", "ext_anim", "ext_anim_neg",
     "ext_plugin", "ext_end", "atomic_0", "atomic_2", "name", "anim",
     "geometry", "geometry_skin"}

\* Headers of declared size 0, one per arm of the match and one of an
\* unknown type, with two sections that leave results behind them.
DffZeroSizeIds ==
    {"clump_zero", "zero_frame_list", "zero_extension", "zero_geometry_list",
     "zero_atomic", "zero_node_name", "zero_anim", "zero_unknown", "name", "atomic_0"}

\* The sections the classification depends on.
DffClassIds ==
    {"name", "name_chassis", "ext_name", "geometry", "geometry_skin", "geometry_bare",
     "geometry_short"}

\* The sections that carry indices: atomics and a frame list whose parent
\* indices point forward.
DffIndexIds == {"atomic_0", "atomic_0b", "atomic_2", "frames_fwd"}

\* The (frame index, geometry index) pair of each atomic section.
AtomicParams(id) ==
    CASE id = "atomic_0" -> [frame_index |-> 1, geometry_index |-> 0]
      [] id = "atomic_0b" -> [frame_index |-> 5, geometry_index |-> 0]
      [] id = "atomic_1" -> [frame_index |-> 2, geometry_index |-> 1]
      [] id = "atomic_2" -> [frame_index |-> 3, geometry_index |-> 2]

\* The parent indices of the frame list that points forward.
ForwardParents == <<1, 5>>

DffSection(id) ==
    CASE id = "clump" -> Hdr(RwClump, 64, PackedSA)
      [] id = "clump_vc" -> Hdr(RwClump, 64, PackedVC)
      [] id = "clump_zero" -> Hdr(RwClump, 0, PackedSA)
      [] id = "struct" -> Sec(RwStruct, LE32(1) \o LE32(0) \o LE32(0), PackedSA)
      [] id = "end" -> Hdr(0, 0, 0)
      [] id = "unknown" -> Sec(1337, Zeros(3), PackedSA)
      [] id = "unknown_far" -> Hdr(1337, 1000, PackedSA)
      [] id = "frames0" -> EncFrameList(0, <<>>)
      [] id = "frames2" -> EncFrameList(2, <<0 - 1, 0>>)
      [] id = "frames_far" -> EncFrameList(1000, <<0 - 1>>)
      [] id = "ext_name" -> EncExtension(Sec(RwNodeName, Ascii("Wheel_lf"), PackedSA))
      [] id = "ext_anim" -> EncExtension(Sec(RwAnim, EncAnimNode(0, 2, 2), PackedSA))
      [] id = "ext_anim_neg" -> EncExtension(Sec(RwAnim, EncAnimNode(7, 0 - 1, 0), PackedSA))
      [] id = "ext_plugin" -> EncExtension(Sec(288, Zeros(4), PackedSA))
      [] id = "ext_end" -> EncExtension(Sec(0, Zeros(2), PackedSA))
      [] id \in {"atomic_0", "atomic_0b", "atomic_1", "atomic_2"} ->
             EncAtomic(AtomicParams(id).frame_index, AtomicParams(id).geometry_index)
      [] id = "name" -> Sec(RwNodeName, Ascii("door") \o Zeros(2), PackedSA)
      [] id = "anim" -> Sec(RwAnim, EncAnimNode(5, 1, 1), PackedSA)
      [] id = "geometry" -> EncGeometryList(1, <<PlainGeometry>>, PackedVC)
      [] id = "geometry_skin" -> EncGeometryList(1, <<SkinnedGeometry>>, PackedSA)
      [] id = "geometry_bare" -> EncGeometryList(1, <<BareGeometry>>, PackedSA)
      [] id = "geometry_short" ->
             WithWrapperSizeZero(EncGeometryList(1, <<BareGeometry>>, PackedSA),
                                 Len(EncBinMesh(BareGeometry.meshes)))
      [] id = "zero_frame_list" -> Hdr(RwFrameList, 0, PackedSA)
      [] id = "zero_extension" -> Hdr(RwExtension, 0, PackedSA)
      [] id = "zero_geometry_list" -> Hdr(RwGeometryList, 0, PackedSA)
      [] id = "zero_atomic" -> Hdr(RwAtomic, 0, PackedSA)
      [] id = "zero_node_name" -> Hdr(RwNodeName, 0, PackedSA)
      [] id = "zero_anim" -> Hdr(RwAnim, 0, PackedSA)
      [] id = "zero_unknown" -> Hdr(1337, 0, PackedSA)
      [] id = "name_chassis" -> Sec(RwNodeName, Ascii("CHASSIS"), PackedSA)
      [] id = "frames_fwd" -> EncFrameList(2, ForwardParents)

MaxSections == 2

\* How many bytes are missing at the end of the buffer.
DffCuts == {0, 4, 13}

SeqsUpTo(S, n) == UNION {[1..k -> S] : k \in 0..n}

\* The section sequences the model buffers are written from.
DffInputs ==
    SeqsUpTo(DffSectionIds, MaxSections) \cup SeqsUpTo(DffZeroSizeIds, MaxSections)
    \cup SeqsUpTo(DffClassIds, MaxSections) \cup SeqsUpTo(DffIndexIds, MaxSections)

DffBuffer(i) == Truncate(Concat([k \in 1..Len(i.secs) |-> DffSection(i.secs[k])]), i.cut)

\* DffParser::new and the locals of parse at its start
NewDffParse ==
    /\ new
    /\ status' = "run"
    /\ version' = <<>>
    /\ version_number' = <<>>
    /\ atomics' = <<>>
    /\ dummies' = <<>>
    /\ anim_nodes' = <<>>
    /\ geometry_list' = <<>>
    /\ frame_list' = <<>>

InitDff ==
    /\ inp \in [decoder : {"dff"}, secs : DffInputs, cut : DffCuts]
    /\ buf = DffBuffer(inp)
    /\ pos = 0
    /\ status = "run"
    /\ last = [op |-> "new", at |-> 0]
    /\ out = <<>>
    /\ IdleDff
    /\ alloc = NoAlloc
    /\ locals = NoLocals
    /\ run = 1
    /\ prev = <<>>

\* str::to_lowercase on the code points the model's strings hold.
to_lowercase(str) ==
    [i \in 1..Len(str) |-> IF str[i] >= 65 /\ str[i] <= 90 THEN str[i] + 32 ELSE str[i]]

\* str::contains
contains(str, pat) ==
    \E i \in 0..(Len(str) - Len(pat)) : SubSeq(str, i + 1, i + Len(pat)) = pat

\* The classification with a model that has no geometry list taken for a
\* skinned one.
model_type_of_none_is_skin(geometries, names) ==
    IF geometries = <<>>
       \/ \E i \in 1..Len(geometries[1].geometries) :
              geometries[1].geometries[i].skin # <<>>
    THEN "Skin"
    ELSE IF \E i \in 1..Len(names) :
                \/ contains(to_lowercase(names[i]), Ascii("wheel"))
                \/ contains(to_lowercase(names[i]), to_lowercase(Ascii("CHASSIS")))
    THEN "Vehicle"
    ELSE "Generic"

\* The classification with the dummy names looked at before the skins.
model_type_of_names_first(geometries, names) ==
    IF \E i \in 1..Len(names) :
           \/ contains(to_lowercase(names[i]), Ascii("wheel"))
           \/ contains(to_lowercase(names[i]), to_lowercase(Ascii("CHASSIS")))
    THEN "Vehicle"
    ELSE IF geometries # <<>>
            /\ \E i \in 1..Len(geometries[1].geometries) :
                   geometries[1].geometries[i].skin # <<>>
    THEN "Skin"
    ELSE "Generic"

\* The classification computed after the loop.
model_type_of(geometries, names) ==
    IF geometries # <<>>
       /\ \E i \in 1..Len(geometries[1].geometries) :
              geometries[1].geometries[i].skin # <<>>
    THEN "Skin"
    ELSE IF \E i \in 1..Len(names) :
                \/ contains(to_lowercase(names[i]), Ascii("wheel"))
                \/ contains(to_lowercase(names[i]), to_lowercase(Ascii("CHASSIS")))
    THEN "Vehicle"
    ELSE "Generic"

unwrap_or_default(opt, default) == IF opt = <<>> THEN default ELSE opt[1]

\* Ok(RwDff { .. })
RwDffOf ==
    [model_type |-> model_type_of(geometry_list, dummies),
     version |-> unwrap_or_default(version, ""),
     version_number |-> unwrap_or_default(version_number, 0),
     geometry_list |-> geometry_list,
     frame_list |-> frame_list,
     atomics |-> atomics,
     dummies |-> dummies,
     anim_nodes |-> anim_nodes]

\* A DffParser::parse call is in progress.
DffRunning == status = "run" /\ inp.decoder = "dff"

\* The header read at the top of the loop body.
Header == read_section_header(pos)

\* The dispatch reached without the test of the declared size.
DispatchingAnySize ==
    /\ DffRunning
    /\ pos < get_size
    /\ Header.st = "ok"
    /\ Header.v.section_type # 0

\* The loop is entered and the header read: the dispatch is reached.
Dispatching ==
    /\ DffRunning
    /\ pos < get_size
    /\ Header.st = "ok"
    /\ Header.v.section_type # 0
    /\ Header.v.section_size # 0

\* The arm of the match taken for a section type.
TopLevelArm(section_type) ==
    CASE section_type = RwClump -> "clump"
      [] section_type = RwFrameList -> "frame_list"
      [] section_type = RwExtension -> "extension"
      [] section_type = RwGeometryList -> "geometry_list"
      [] section_type = RwAtomic -> "atomic"
      [] section_type = RwNodeName -> "node_name"
      [] section_type = RwAnim -> "anim"
      [] OTHER -> "default"

\* The arm of the inner match of the extension arm.
ExtensionArm(section_type) ==
    CASE section_type = RwNodeName -> "node_name"
      [] section_type = RwAnim -> "anim"
      [] OTHER -> "default"

Step(op) == last' = [op |-> op, at |-> pos]

\* A reader failed: the error (or panic) leaves parse.
DffFail(op, r) ==
    /\ status' = r.st
    /\ pos' = r.pos
    /\ out' = <<>>
    /\ Step(op)
    /\ UNCHANGED <<buf, dffVars, run, prev, inp, locals>>

\* The loop is over: classify the model and return it.
DffReturn(op, p) ==
    /\ status' = "ok"
    /\ pos' = p
    /\ out' = RwDffOf
    /\ alloc' = NoAlloc
    /\ Step(op)
    /\ UNCHANGED <<buf, dffVars, run, prev, inp, locals>>

\* while get_position() < get_size(): the condition is false
DffEndOfBuffer ==
    /\ DffRunning
    /\ ~(pos < get_size)
    /\ DffReturn("end_of_buffer", pos)

\* read_section_header()? fails at the top of the loop
DffHeaderError ==
    /\ DffRunning
    /\ pos < get_size
    /\ Header.st # "ok"
    /\ alloc' = NoAlloc
    /\ DffFail("header", Header)

\* if header.section_type == 0 { break; }
DffBreak ==
    /\ DffRunning
    /\ pos < get_size
    /\ Header.st = "ok"
    /\ Header.v.section_type = 0
    /\ DffReturn("break", Header.pos)

\* if header.section_size == 0 { continue; }
DffContinue ==
    /\ DffRunning
    /\ pos < get_size
    /\ Header.st = "ok"
    /\ Header.v.section_type # 0
    /\ Header.v.section_size = 0
    /\ pos' = Header.pos
    /\ alloc' = NoAlloc
    /\ Step("continue")
    /\ UNCHANGED <<buf, status, out, dffVars, run, prev, inp, locals>>

\* Some(RwSections::RwClump)
DffClump ==
    /\ Dispatching
    /\ TopLevelArm(Header.v.section_type) = "clump"
    /\ version_number' = <<unpack_version(Wide(Header.v.version_number))>>
    /\ version' = <<unwrap_or_default(
                        get_version_string(unpack_version(Wide(Header.v.version_number))), "")>>
    /\ pos' = Header.pos
    /\ alloc' = NoAlloc
    /\ Step("clump")
    /\ UNCHANGED <<buf, status, out, atomics, dummies, anim_nodes, geometry_list,
                   frame_list, run, prev, inp, locals>>

\* A resize that fills the whole table with the value.
resize_filling(table, new_len, value) == [i \in 1..new_len |-> value]

\* atomics.resize(new_len, 0) when atomics.len() <= geometry_index
resize(table, new_len, value) ==
    [i \in 1..new_len |-> IF i <= Len(table) THEN table[i] ELSE value]

\* The table after one atomic is recorded, resized to the atomic's index
\* whatever its length was.
RecordAtomicResizedAlways(table, atomic) ==
    [resize(table, atomic.geometry_index + 1, 0)
         EXCEPT ![atomic.geometry_index + 1] = atomic.frame_index]

\* The table after one atomic is recorded.
RecordAtomic(table, atomic) ==
    LET grown == IF Len(table) <= atomic.geometry_index
                 THEN resize(table, atomic.geometry_index + 1, 0)
                 ELSE table
    IN  [grown EXCEPT ![atomic.geometry_index + 1] = atomic.frame_index]

\* The body of a match arm whose call returned r: an error (or panic)
\* leaves parse, a value is stored in the local the arm assigns (none for
\* the default arms) and the loop goes on.
DffArm(op, r, local) ==
    /\ alloc' = (IF "al" \in DOMAIN r THEN r.al ELSE NoAlloc)
    /\ IF r.st # "ok" THEN DffFail(op, r)
       ELSE /\ pos' = r.pos
            /\ Step(op)
            /\ frame_list' = (IF local = "frame_list" THEN <<r.v>> ELSE frame_list)
            /\ geometry_list' = (IF local = "geometry_list" THEN <<r.v>>
                                 ELSE geometry_list)
            /\ atomics' = (IF local = "atomics" THEN RecordAtomic(atomics, r.v)
                           ELSE atomics)
            /\ dummies' = (IF local = "dummies" THEN Append(dummies, r.v) ELSE dummies)
            /\ anim_nodes' = (IF local = "anim_nodes" THEN Append(anim_nodes, r.v)
                              ELSE anim_nodes)
            /\ UNCHANGED <<buf, status, out, version, version_number, run, prev, inp,
                           locals>>

\* Some(RwSections::RwFrameList)
DffFrameList ==
    /\ Dispatching
    /\ TopLevelArm(Header.v.section_type) = "frame_list"
    /\ DffArm("frame_list", read_frame_list(Header.pos), "frame_list")

\* The nested header of an extension block.
ExtensionHeader == read_section_header(Header.pos)

\* Some(RwSections::RwExtension): the nested header cannot be read
DffExtensionHeaderError ==
    /\ Dispatching
    /\ TopLevelArm(Header.v.section_type) = "extension"
    /\ ExtensionHeader.st # "ok"
    /\ alloc' = NoAlloc
    /\ DffFail("extension_header", ExtensionHeader)

\* Some(RwSections::RwExtension), nested Some(RwSections::RwNodeName)
DffExtensionNodeName ==
    /\ Dispatching
    /\ TopLevelArm(Header.v.section_type) = "extension"
    /\ ExtensionHeader.st = "ok"
    /\ ExtensionArm(ExtensionHeader.v.section_type) = "node_name"
    /\ DffArm("extension_node_name",
              read_string(ExtensionHeader.pos, ExtensionHeader.v.section_size), "dummies")

\* Some(RwSections::RwExtension), nested Some(RwSections::RwAnim)
DffExtensionAnim ==
    /\ Dispatching
    /\ TopLevelArm(Header.v.section_type) = "extension"
    /\ ExtensionHeader.st = "ok"
    /\ ExtensionArm(ExtensionHeader.v.section_type) = "anim"
    /\ DffArm("extension_anim", read_anim_node(ExtensionHeader.pos), "anim_nodes")

\* Some(RwSections::RwExtension), nested default arm
DffExtensionSkip ==
    /\ Dispatching
    /\ TopLevelArm(Header.v.section_type) = "extension"
    /\ ExtensionHeader.st = "ok"
    /\ ExtensionArm(ExtensionHeader.v.section_type) = "default"
    /\ DffArm("extension_skip",
              skip(ExtensionHeader.pos, ExtensionHeader.v.section_size), "none")

\* Some(RwSections::RwGeometryList)
DffGeometryList ==
    /\ Dispatching
    /\ TopLevelArm(Header.v.section_type) = "geometry_list"
    /\ DffArm("geometry_list", read_geometry_list(Header.pos), "geometry_list")

\* Some(RwSections::RwAtomic)
DffAtomic ==
    /\ Dispatching
    /\ TopLevelArm(Header.v.section_type) = "atomic"
    /\ DffArm("atomic", read_atomic(Header.pos), "atomics")

\* Some(RwSections::RwNodeName)
DffNodeName ==
    /\ Dispatching
    /\ TopLevelArm(Header.v.section_type) = "node_name"
    /\ DffArm("node_name", read_string(Header.pos, Header.v.section_size), "dummies")

\* Some(RwSections::RwAnim)
DffAnim ==
    /\ Dispatching
    /\ TopLevelArm(Header.v.section_type) = "anim"
    /\ DffArm("anim", read_anim_node(Header.pos), "anim_nodes")

\* _ => skip(header.section_size)
DffSkip ==
    /\ Dispatching
    /\ TopLevelArm(Header.v.section_type) = "default"
    /\ DffArm("skip", skip(Header.pos, Header.v.section_size), "none")

\* The outcome of a finished decode call.
Outcome == [st |-> status, v |-> out]

NextDff ==
    \/ DffEndOfBuffer
    \/ DffHeaderError
    \/ DffBreak
    \/ DffContinue
    \/ DffClump
    \/ DffFrameList
    \/ DffExtensionHeaderError
    \/ DffExtensionNodeName
    \/ DffExtensionAnim
    \/ DffExtensionSkip
    \/ DffGeometryList
    \/ DffAtomic
    \/ DffNodeName
    \/ DffAnim
    \/ DffSkip

SpecDff == InitDff /\ [][NextDff]_vars

\* An iteration of the section loop of a running call, seen in the status
\* and the cursor: the loop is left where the cursor stands, or the call
\* ends some other way, or it goes on with the cursor moved.
DffIteration ==
    /\ DffRunning
    /\ \/ status' = "ok" /\ pos' = pos
       \/ <<status, pos>>' # <<status, pos>>

\* parse is one sequential loop and nothing suspends it: a running call
\* goes through its next iteration.
SpecDffLive == SpecDff /\ WF_<<status, pos>>(DffIteration)

-----------------------------------------------------------------------------
(* read_material_list on its own, one step per iteration of its second     *)
(* loop.  The buffer holds one material list at position 0.                *)

MaxMaterials == 3

\* The i32 values an index array is drawn from.
MatIndexValues == {0 - 2, 0 - 1, 0, 1, 2}

MatCuts == {0, 4}

MatVersions == {PackedSA, OldStyle310}

InitMat ==
    /\ inp \in [decoder : {"material_list"},
                indices : SeqsUpTo(MatIndexValues, MaxMaterials),
                cut : MatCuts, ver : MatVersions]
    /\ buf = Truncate(EncMaterialList(Len(inp.indices), inp.indices, inp.ver), inp.cut)
    /\ pos = 0
    /\ status = "start"
    /\ last = [op |-> "new", at |-> 0]
    /\ out = <<>>
    /\ IdleDff
    /\ alloc = NoAlloc
    /\ locals = NoLocals
    /\ run = 1
    /\ prev = <<>>

MatStay == UNCHANGED <<buf, dffVars, alloc, run, prev, inp>>

\* read_material_list has run up to the state s.
MatPhase(op, s, from) ==
    /\ locals' = s
    /\ pos' = s.pos
    /\ status' = (IF s.st = "ok" THEN "run" ELSE s.st)
    /\ last' = [op |-> op, at |-> pos, index |-> from.index, decoded |-> from.decoded]
    /\ UNCHANGED out
    /\ MatStay

\* The two headers, the count and the first loop (the index array).
MatReadIndices ==
    /\ status = "start"
    /\ inp.decoder = "material_list"
    /\ MatPhase("indices", MaterialListHead(pos), [index |-> 0, decoded |-> 0])

\* The second loop is at an iteration.
MatIterating ==
    /\ status = "run"
    /\ inp.decoder = "material_list"
    /\ Len(locals.material_data) < locals.material_instance_count

\* One iteration of the second loop.
MatIterate(op) ==
    MatPhase(op, MaterialStep(locals),
             [index |-> MaterialIndex(locals), decoded |-> Len(locals.material_data)])

\* if material_index == -1 { material_data.push(read_material()?) }
MatInline ==
    /\ MatIterating
    /\ MaterialIndex(locals) = 0 - 1
    /\ MatIterate("inline")

\* else { material_data.push(material_data[material_index as usize].clone()) }
MatAlias ==
    /\ MatIterating
    /\ MaterialIndex(locals) # 0 - 1
    /\ MatIterate("alias")

\* Ok(RwMaterialList { material_instance_count, material_data })
MatReturn ==
    /\ status = "run"
    /\ inp.decoder = "material_list"
    /\ ~(Len(locals.material_data) < locals.material_instance_count)
    /\ status' = "ok"
    /\ out' = [material_instance_count |-> locals.material_instance_count,
               material_data |-> locals.material_data]
    /\ last' = [op |-> "return", at |-> pos]
    /\ UNCHANGED <<pos, locals>>
    /\ MatStay

NextMat ==
    \/ MatReadIndices
    \/ MatInline
    \/ MatAlias
    \/ MatReturn

SpecMat == InitMat /\ [][NextMat]_vars

\* An alias index the list cannot resolve: negative but not -1, or not below
\* the number of materials decoded so far.
BadAlias(index, decoded) == index # 0 - 1 /\ (index < 0 \/ index >= decoded)

\* C3: an alias index that is negative but not -1, or that is not below the
\* number of materials already decoded, ends the decode with an
\* invalid-index error and never with a panic.
C3_BadAliasIsDecodeError ==
    (last.op = "alias" /\ BadAlias(last.index, last.decoded))
        => (status = "invalid_index" /\ status # "panic")

\* Where the encoding of the material for entry i (1-based) starts: after
\* the two headers, the count, the index array and the materials of the
\* earlier -1 entries.
RECURSIVE InlineBytesBefore(_, _)
InlineBytesBefore(indices, i) ==
    IF i <= 1 THEN 0
    ELSE InlineBytesBefore(indices, i - 1)
         + (IF indices[i - 1] = 0 - 1
            THEN Len(EncMaterial(10 * (i - 1), ((10 * (i - 1)) \div 10) % 2 = 0, inp.ver))
            ELSE 0)

MaterialOffset(indices, i) == 28 + 4 * Len(indices) + InlineBytesBefore(indices, i)

\* C4: a decoded material list with instance count N has N materials in
\* index-array order; entry i is the material decoded inline from the stream
\* when index[i] = -1 and otherwise equal to the material stored at
\* position index[i], which is below i; the stream is consumed for the -1
\* entries only, in order.
C4_MaterialListOrder ==
    (inp.decoder = "material_list" /\ status = "ok") =>
        /\ out.material_instance_count = Len(inp.indices)
        /\ Len(out.material_data) = Len(inp.indices)
        /\ \A i \in 1..Len(inp.indices) :
              IF inp.indices[i] = 0 - 1
              THEN /\ read_material(MaterialOffset(inp.indices, i)).st = "ok"
                   /\ out.material_data[i]
                        = read_material(MaterialOffset(inp.indices, i)).v
                   /\ out.material_data[i].color.r = 10 * i
              ELSE /\ inp.indices[i] >= 0
                   /\ inp.indices[i] < i - 1
                   /\ out.material_data[i] = out.material_data[inp.indices[i] + 1]
        /\ pos = MaterialOffset(inp.indices, Len(inp.indices) + 1)

\* A list of three entries whose last two alias the first and the second.
C4_Witness ==
    /\ inp.decoder = "material_list"
    /\ status = "ok"
    /\ inp.indices = <<0 - 1, 0 - 1, 1>>
    /\ out.material_data[3] = out.material_data[2]
    /\ out.material_data[3] # out.material_data[1]

-----------------------------------------------------------------------------
(* Properties of DffParser::parse.                                         *)

\* C2: a declared count is checked against the bytes that remain before it
\* sizes an allocation: no reservation is made for a count that is negative
\* or that implies more bytes than remain, and no such count ends in a panic.
C2_CountsAreBounded ==
    /\ \A i \in 1..Len(alloc) :
          /\ alloc[i].count >= 0
          /\ alloc[i].count * alloc[i].elem <= alloc[i].rem
    /\ status # "panic"

\* The section types DffParser::parse has an arm for.
HandledTypes == {RwClump, RwFrameList, RwExtension, RwGeometryList, RwAtomic,
                 RwNodeName, RwAnim}

\* The header at the cursor is a top-level section of an unhandled type.
UnknownTopLevel ==
    /\ DffRunning
    /\ pos < get_size
    /\ Header.st = "ok"
    /\ Header.v.section_type # 0
    /\ Header.v.section_type \notin HandledTypes

\* The header at the cursor is an extension whose nested header is of a
\* type the extension arm does not handle.
UnknownNested ==
    /\ Dispatching
    /\ Header.v.section_type = RwExtension
    /\ ExtensionHeader.st = "ok"
    /\ ExtensionHeader.v.section_type \notin {RwNodeName, RwAnim}

\* C5: a section of an unhandled type, at the top level or as the nested
\* header of an extension, is not an error: the step moves the cursor to the
\* end of that header plus its declared size, decoding goes on, and the
\* accumulated result fields are unchanged.
C5_UnknownSectionsSkipped ==
    [][/\ UnknownTopLevel =>
            /\ status' = "run"
            /\ pos' = pos + 12 + Header.v.section_size
            /\ UNCHANGED dffVars
       /\ UnknownNested =>
            /\ status' = "run"
            /\ pos' = pos + 24 + ExtensionHeader.v.section_size
            /\ UNCHANGED dffVars]_vars

\* An unknown top-level section was skipped to beyond the end of the buffer.
C5_Witness ==
    /\ last.op = "skip"
    /\ status = "run"
    /\ pos = last.at + 12 + 1000
    /\ pos > get_size

\* An unhandled header nested in an extension was skipped.
C5_NestedSkipped ==
    /\ last.op = "extension_skip"
    /\ status = "run"
    /\ pos = last.at + 24 + 4

\* C9: a successful frame-list decode with count n yields n frames and
\* leaves the cursor 4 + 56 * n bytes after the struct header (which ends 24
\* bytes after the start of the frame-list section); for n = 0 the frame
\* sequence is empty and only the count field is consumed.
C9_FrameListLength ==
    (last.op = "frame_list" /\ status = "run") =>
        /\ Len(frame_list) = 1
        /\ Len(frame_list[1].frames) = frame_list[1].frame_count
        /\ pos = last.at + 24 + 4 + 56 * frame_list[1].frame_count
        /\ frame_list[1].frame_count = 0 =>
              (frame_list[1].frames = <<>> /\ pos = last.at + 24 + 4)

\* A list of two frames was decoded, the second a child of the first.
C9_Witness ==
    /\ last.op = "frame_list"
    /\ status = "run"
    /\ frame_list[1].frame_count = 2
    /\ frame_list[1].frames[2].parent_frame = 0
    /\ pos = last.at + 140

\* An empty frame list was decoded.
C9_EmptyList ==
    /\ last.op = "frame_list"
    /\ status = "run"
    /\ frame_list[1].frame_count = 0
    /\ frame_list[1].frames = <<>>
    /\ pos = last.at + 28

-----------------------------------------------------------------------------
(* read_geometry on its own, one step per phase.  The buffer holds one     *)
(* geometry at position 0; locals is the reader's state g.                 *)

MaxChannels == 2
MaxVertices == 2

\* flags: none, UV1, prelit, UV2, and prelit with both UV bits.
GeomFlags == {0, 4, 8, 128, 140}

GeomCuts == {0, 60}

GeomParams(i) ==
    [flags |-> i.flags, texture_coordinates_count |-> i.texture_coordinates_count,
     triangle_count |-> 1, vertex_count |-> i.vertex_count,
     has_vertices |-> TRUE, has_normals |-> i.after = "skin",
     material_indices |-> <<0 - 1>>, meshes |-> <<1>>, after |-> i.after]

\* The section that follows the geometry in the buffer, if any.
GeomFollower(follow) ==
    CASE follow = "name" -> Sec(RwNodeName, Ascii("door"), PackedSA)
      [] follow = "skin" -> EncSkin(MaxVertices, 1)
      [] follow = "nothing" -> <<>>

InitGeom ==
    /\ inp \in [decoder : {"geometry"}, flags : GeomFlags,
                texture_coordinates_count : 0..MaxChannels,
                vertex_count : 0..MaxVertices,
                after : {"skin", "plugin", "plugin_skin", "none"},
                follow : {"nothing", "name", "skin"},
                ver : {PackedSA, PackedVC},
                cut : GeomCuts]
    /\ buf = Truncate(EncGeometry(GeomParams(inp), inp.ver) \o GeomFollower(inp.follow),
                      inp.cut)
    /\ pos = 0
    /\ status = "run"
    /\ last = [op |-> "new", at |-> 0]
    /\ out = <<>>
    /\ IdleDff
    /\ alloc = NoAlloc
    /\ locals = NoLocals
    /\ run = 1
    /\ prev = <<>>

\* read_geometry has completed the phase `from` and runs the next one, which
\* takes its state to g.
GeomPhase(from, op, g) ==
    /\ status = "run"
    /\ inp.decoder = "geometry"
    /\ last.op = from
    /\ locals' = g
    /\ pos' = g.pos
    /\ status' = IF g.st = "ok" THEN "run" ELSE g.st
    /\ last' = [op |-> op, at |-> pos]
    /\ UNCHANGED <<buf, out, dffVars, alloc, run, prev, inp>>

GeomHeader == GeomPhase("new", "header", GeoHeader(pos, unpack_version(Wide(inp.ver))))
GeomColors == GeomPhase("header", "colors", GeoColors(locals))
GeomTexCoords == GeomPhase("colors", "tex_coords", GeoTexCoords(locals))
GeomTriangles == GeomPhase("tex_coords", "triangles", GeoTriangles(locals))
GeomVertices == GeomPhase("triangles", "vertices", GeoVertices(locals))
GeomMaterialList == GeomPhase("vertices", "material_list", GeoMaterialList(locals))
GeomBinMesh == GeomPhase("material_list", "bin_mesh", GeoBinMesh(locals))
GeomSkin == GeomPhase("bin_mesh", "skin", GeoSkin(locals))

\* set_position(position + section_size) and Ok(RwGeometry { .. })
GeomReturn ==
    /\ status = "run"
    /\ inp.decoder = "geometry"
    /\ last.op = "skin"
    /\ locals' = GeoResync(locals)
    /\ pos' = GeoResync(locals).pos
    /\ status' = "ok"
    /\ out' = RwGeometryOf(locals)
    /\ last' = [op |-> "return", at |-> pos]
    /\ UNCHANGED <<buf, dffVars, alloc, run, prev, inp>>

NextGeom ==
    \/ GeomHeader
    \/ GeomColors
    \/ GeomTexCoords
    \/ GeomTriangles
    \/ GeomVertices
    \/ GeomMaterialList
    \/ GeomBinMesh
    \/ GeomSkin
    \/ GeomReturn

SpecGeom == InitGeom /\ [][NextGeom]_vars

\* The geometry's flags have the bit.
GeomBit(bit) == FlagBit(inp.flags, bit)

\* C10: with the prelit bit (3) clear the colour phase reads no byte and the
\* geometry has no vertex colours, whatever vertex_count is; with the UV
\* bits (2 and 7) both clear the UV phase reads no byte and the geometry has
\* no UV channel, whatever texture_coordinates_count is; with a UV bit set a
\* geometry that gets past the UV phase has texture_coordinates_count
\* channels of vertex_count entries each.
C10_ColoursAndUvFollowFlags ==
    /\ (last.op = "colors" /\ ~GeomBit(3)) =>
          /\ status = "run"
          /\ pos = last.at
          /\ locals.vertex_color_information = <<>>
    /\ (last.op = "tex_coords" /\ ~GeomBit(2) /\ ~GeomBit(7)) =>
          /\ status = "run"
          /\ pos = last.at
          /\ locals.texture_mapping_information = <<>>
    /\ (last.op = "tex_coords" /\ (GeomBit(2) \/ GeomBit(7)) /\ status = "run") =>
          /\ Len(locals.texture_mapping_information) = inp.texture_coordinates_count
          /\ \A c \in 1..inp.texture_coordinates_count :
                Len(locals.texture_mapping_information[c]) = inp.vertex_count
          /\ pos = last.at + 8 * inp.texture_coordinates_count * inp.vertex_count
    /\ (inp.decoder = "geometry" /\ status = "ok") =>
          /\ ~GeomBit(3) => out.vertex_color_information = <<>>
          /\ (~GeomBit(2) /\ ~GeomBit(7)) => out.texture_mapping_information = <<>>
          /\ (GeomBit(2) \/ GeomBit(7)) =>
                /\ Len(out.texture_mapping_information) = inp.texture_coordinates_count
                /\ \A c \in 1..inp.texture_coordinates_count :
                      Len(out.texture_mapping_information[c]) = inp.vertex_count

\* A geometry with two vertices and two declared channels but no flag bit
\* set was decoded: it has neither colours nor UV channels.
C10_Witness ==
    /\ inp.decoder = "geometry"
    /\ status = "ok"
    /\ inp.flags = 0
    /\ inp.vertex_count = 2
    /\ inp.texture_coordinates_count = 2
    /\ out.vertex_color_information = <<>>
    /\ out.texture_mapping_information = <<>>
    /\ Len(out.vertex_information) = 2

\* A geometry with only the second UV bit set was decoded with two channels
\* of two entries.
C10_UvChannels ==
    /\ inp.decoder = "geometry"
    /\ status = "ok"
    /\ inp.flags = 128
    /\ Len(out.texture_mapping_information) = 2
    /\ Len(out.texture_mapping_information[2]) = 2
    /\ out.vertex_color_information = <<>>

-----------------------------------------------------------------------------
\* Input buffers for the IFP decoder (not part of the program).
Padded(bytes, n) == bytes \o Zeros(n - Len(bytes))

EncAnp3Keyframe(k, with_position) ==
    LE16(k) \o LE16(0 - k) \o LE16(4096) \o LE16(0 - 4096) \o LE16(10 * k)
    \o (IF with_position THEN LE16(1024) \o LE16(0 - 512) \o LE16(k) ELSE <<>>)

EncAnp3Bone(type_num, keyframes) ==
    Padded(Ascii("door"), 24) \o LE32(type_num) \o LE32(keyframes) \o LE32(0 - 1)
    \o Concat([k \in 1..keyframes |-> EncAnp3Keyframe(k, type_num = 4)])

EncAnp3(s) ==
    Ascii("ANP3") \o LE32(0) \o Padded(Ascii("wheel"), 24) \o LE32(s.animations)
    \o Concat([a \in 1..s.animations |->
           Padded(Ascii("tex"), 24) \o LE32(s.bones) \o Zeros(8)
           \o Concat([b \in 1..s.bones |-> EncAnp3Bone(s.type_num, s.keyframes)])])

EncAnpkKeyframe(k, type) ==
    F32Bits(k) \o F32Bits(k + 1) \o F32Bits(k + 2) \o F32Bits(k + 3)
    \o (IF type[3] = 84 THEN F32Bits(20) \o F32Bits(21) \o F32Bits(22) ELSE <<>>)
    \o (IF type[4] = 83 THEN F32Bits(30) \o F32Bits(31) \o F32Bits(32) ELSE <<>>)
    \o F32Bits(40 + k)

EncAnpkBone(s) ==
    Zeros(8) \o <<65, 78, 73, 77>> \o LE32(IF s.type_num = 4 THEN 44 ELSE 48)
    \o Padded(Ascii("door"), 28) \o LE32(s.keyframes) \o Zeros(8)
    \o (IF s.type_num = 4 THEN LE32(7) ELSE Zeros(8))
    \o (IF s.keyframes > 0
        THEN s.type \o LE32(0)
             \o Concat([k \in 1..s.keyframes |-> EncAnpkKeyframe(k, s.type \o Zeros(4))])
        ELSE <<>>)

EncAnpk(s) ==
    Ascii("ANPK") \o LE32(0) \o Ascii("INFO") \o LE32(s.info_len) \o LE32(s.animations)
    \o Padded(Ascii("wheel"), IF s.info_len >= 4 THEN s.info_len - 4 + AlignLen(s.info_len)
                                                 ELSE 8)
    \o Concat([a \in 1..s.animations |->
           <<78, 65, 77, 69>> \o LE32(3) \o Ascii("tex") \o Zeros(1) \o Zeros(16)
           \o LE32(s.bones) \o Zeros(4)
           \o Concat([b \in 1..s.bones |-> EncAnpkBone(s)])])

\* The buffer with its first bytes replaced by the signature given.
WithSignature(sig, b) == sig \o SubSeq(b, 5, Len(b))

-----------------------------------------------------------------------------
(* IfpParser::parse as a state machine: the signature peek and the match,  *)
(* then the sub-decoder it selected.                                       *)

MaxKeyframes == 2

\* The first bytes of a buffer: the two signatures, two four-byte prefixes
\* that are neither (one of them "ANP" and a NUL), and a buffer of three
\* bytes.
IfpSignatures ==
    {Ascii("ANP3"), Ascii("ANPK"), <<65, 78, 80, 0>>, <<65, 78, 80, 52>>, <<65, 78, 80>>}

IfpCuts == {0, 6}

\* The keyframe types of ANPK bones: KR00, KRT0, KRTS, and a type cut short
\* by a NUL.
IfpKeyframeTypes == {Ascii("KR00"), Ascii("KRT0"), Ascii("KRTS"), <<75, 0, 0, 0>>}

IfpShapes ==
    [body : {"anp3", "anpk"}, animations : 0..1, bones : {1}, type_num : {0, 4},
     keyframes : 0..MaxKeyframes, type : IfpKeyframeTypes, info_len : {3, 9, 12}]

IfpBody(s) == IF s.body = "anp3" THEN EncAnp3(s) ELSE EncAnpk(s)

InitIfp ==
    /\ inp \in [decoder : {"ifp"}, sig : IfpSignatures, shape : IfpShapes,
                cut : IfpCuts, build : {"debug", "release"}]
    /\ buf = IF Len(inp.sig) < 4 THEN inp.sig
             ELSE Truncate(WithSignature(inp.sig, IfpBody(inp.shape)), inp.cut)
    /\ pos = 0
    /\ status = "run"
    /\ last = [op |-> "new", at |-> 0]
    /\ out = <<>>
    /\ IdleDff
    /\ alloc = NoAlloc
    /\ locals = NoLocals
    /\ run = 1
    /\ prev = <<>>

IfpStay == UNCHANGED <<buf, dffVars, alloc, locals, run, prev, inp>>

\* read_string(4)?, set_position(0) and the match on the signature
IfpPeek ==
    /\ status = "run"
    /\ inp.decoder = "ifp"
    /\ last.op = "new"
    /\ LET file_signature == read_string(pos, 4)
       IN  IF file_signature.st # "ok"
           THEN /\ status' = file_signature.st
                /\ pos' = file_signature.pos
                /\ last' = [op |-> "peek", at |-> pos, arm |-> "error"]
           ELSE /\ pos' = set_position(0).pos
                /\ IF file_signature.v = Ascii("ANP3")
                   THEN /\ status' = "run"
                        /\ last' = [op |-> "peek", at |-> pos, arm |-> "read_anp3"]
                   ELSE IF file_signature.v = Ascii("ANPK")
                   THEN /\ status' = "run"
                        /\ last' = [op |-> "peek", at |-> pos, arm |-> "read_anpk"]
                   ELSE /\ status' = "unsupported"
                        /\ last' = [op |-> "peek", at |-> pos, arm |-> "unsupported"]
    /\ UNCHANGED out
    /\ IfpStay

\* The sub-decoder's result is the result of parse.
IfpFinish(op, r) ==
    /\ status' = r.st
    /\ pos' = r.pos
    /\ out' = r.v
    /\ last' = [op |-> op, at |-> pos]
    /\ IfpStay

\* "ANP3" => self.read_anp3()
IfpReadAnp3 ==
    /\ status = "run"
    /\ inp.decoder = "ifp"
    /\ last.op = "peek"
    /\ last.arm = "read_anp3"
    /\ IfpFinish("read_anp3", read_anp3(pos))

\* "ANPK" => self.read_anpk()
IfpReadAnpk ==
    /\ status = "run"
    /\ inp.decoder = "ifp"
    /\ last.op = "peek"
    /\ last.arm = "read_anpk"
    /\ IfpFinish("read_anpk", read_anpk(pos, inp.build))

NextIfp ==
    \/ IfpPeek
    \/ IfpReadAnp3
    \/ IfpReadAnpk

SpecIfp == InitIfp /\ [][NextIfp]_vars

\* The buffer starts with the four bytes given.
StartsWith(sig) == Len(buf) >= 4 /\ SubSeq(buf, 1, 4) = sig

\* C7: parse peeks the first four bytes without consuming them: after the
\* peek the cursor is at 0; a buffer starting with "ANP3" goes to the legacy
\* decoder, which runs from position 0 and tags its result ANP3; one
\* starting with "ANPK" goes to the modern decoder, which runs from position
\* 0 and tags its result ANPK; any other four-byte prefix ends the call with
\* the unsupported-format error and the cursor at 0.
C7_SignatureDispatch ==
    /\ (last.op = "peek" /\ Len(buf) >= 4) => pos = 0
    /\ (last.op = "peek" /\ StartsWith(Ascii("ANP3"))) =>
          (status = "run" /\ last.arm = "read_anp3")
    /\ (last.op = "peek" /\ StartsWith(Ascii("ANPK"))) =>
          (status = "run" /\ last.arm = "read_anpk")
    /\ (last.op = "peek" /\ Len(buf) >= 4
            /\ ~StartsWith(Ascii("ANP3")) /\ ~StartsWith(Ascii("ANPK"))) =>
          (status = "unsupported" /\ pos = 0 /\ out = <<>>)
    /\ last.op = "read_anp3" =>
          /\ StartsWith(Ascii("ANP3"))
          /\ last.at = 0
          /\ status = "ok" => out.version = "ANP3"
    /\ last.op = "read_anpk" =>
          /\ StartsWith(Ascii("ANPK"))
          /\ last.at = 0
          /\ status = "ok" => out.version = "ANPK"
    /\ (inp.decoder = "ifp" /\ status = "ok") => last.op \in {"read_anp3", "read_anpk"}

\* A legacy package with one animation of one bone with two keyframes.
C7_Witness ==
    /\ last.op = "read_anp3"
    /\ status = "ok"
    /\ out.version = "ANP3"
    /\ Len(out.animations) = 1
    /\ Len(out.animations[1].bones[1].keyframes) = 2
    /\ out.animations[1].bones[1].keyframe_type = Ascii("KRT0")

\* A modern package with translated and scaled keyframes.
C7_ModernDecoded ==
    /\ last.op = "read_anpk"
    /\ status = "ok"
    /\ out.version = "ANPK"
    /\ Len(out.animations) = 1
    /\ out.animations[1].bones[1].keyframe_type = Ascii("KRTS")
    /\ Len(out.animations[1].bones[1].keyframes) = 2

\* A prefix that is neither signature was refused.
C7_Unsupported ==
    /\ last.op = "peek"
    /\ status = "unsupported"
    /\ pos = 0
    /\ SubSeq(buf, 1, 4) = <<65, 78, 80, 52>>

-----------------------------------------------------------------------------
\* Input buffers for the TXD decoder (not part of the program).
EncMipmaps(s) ==
    Concat([i \in 1..s.mipmaps |->
        LE32(s.raster_size) \o [k \in 1..s.raster_size |-> (16 * i + k) % 256]])

EncTextureNative(s) ==
    Sec(RwTextureNative,
        Sec(RwStruct,
            LE32(s.platform) \o LE32(4352 + 6)
            \o Padded(Ascii("tex"), 32) \o Padded(Ascii("wheel"), 32)
            \o LE32(8192 * s.palette + 5) \o s.d3d_format
            \o LE16(4) \o LE16(4) \o <<4, s.mipmaps, 4, s.compression_flags>>
            \o (IF s.palette = 0 THEN <<>> ELSE [k \in 1..64 |-> k])
            \o EncMipmaps(s),
            PackedSA)
        \o Sec(RwExtension, <<>>, PackedSA),
        PackedSA)

EncTextureDictionary(s) ==
    Sec(RwTextureDictionary,
        Sec(RwStruct, LE16(s.textures) \o Zeros(2), PackedSA)
        \o Concat([i \in 1..s.textures |-> EncTextureNative(s)])
        \o Sec(RwExtension, <<>>, PackedSA),
        PackedSA)

-----------------------------------------------------------------------------
(* TxdParser::parse as a state machine: read_texture_dictionary up to its  *)
(* loop, one step per texture native, and its end.                         *)

MaxTextures == 2
MaxMipmaps == 2

\* d3d_format fields: "DXT1", "DXT5" and four NUL bytes.
TxdFormats == {<<68, 88, 84, 49>>, <<68, 88, 84, 53>>, Zeros(4)}

TxdCuts == {0, 5, 30}

TxdShapes ==
    [textures : 0..MaxTextures, platform : {D3d8, D3d9}, d3d_format : TxdFormats,
     compression_flags : {0, 1, 3, 8}, palette : {0, 1}, mipmaps : 0..MaxMipmaps,
     raster_size : {8, 16}]

InitTxd ==
    /\ inp \in [decoder : {"txd"}, shape : TxdShapes, cut : TxdCuts]
    /\ buf = Truncate(EncTextureDictionary(inp.shape), inp.cut)
    /\ pos = 0
    /\ status = "run"
    /\ last = [op |-> "new", at |-> 0]
    /\ out = <<>>
    /\ IdleDff
    /\ alloc = NoAlloc
    /\ locals = NoLocals
    /\ run = 1
    /\ prev = <<>>

TxdRunning == status = "run" /\ inp.decoder = "txd"

\* read_texture_dictionary has run up to the state s.
TxdPhase(op, s) ==
    /\ locals' = s
    /\ pos' = s.pos
    /\ status' = (IF s.st = "ok" THEN "run" ELSE s.st)
    /\ alloc' = s.al
    /\ last' = [op |-> op, at |-> pos]
    /\ UNCHANGED <<buf, out, dffVars, run, prev, inp>>

\* The two headers, the count and Vec::with_capacity.
TxdHead ==
    /\ TxdRunning
    /\ last.op = "new"
    /\ TxdPhase("head", TextureDictionaryHead(pos))

\* One iteration of the loop of read_texture_dictionary.
TxdTextureNative ==
    /\ TxdRunning
    /\ last.op # "new"
    /\ Len(locals.texture_natives) < locals.texture_count
    /\ TxdPhase("texture_native", TextureNativeStep(locals))

\* The result of read_texture_dictionary is the result of parse.
TxdFinish(r) ==
    /\ status' = r.st
    /\ pos' = r.pos
    /\ out' = r.v
    /\ alloc' = NoAlloc
    /\ last' = [op |-> "return", at |-> pos]
    /\ UNCHANGED <<buf, dffVars, locals, run, prev, inp>>

\* The trailing header and skip, and Ok(RwTxd { .. }).
TxdReturn ==
    /\ TxdRunning
    /\ last.op # "new"
    /\ ~(Len(locals.texture_natives) < locals.texture_count)
    /\ TxdFinish(RwTxdOf(TextureDictionaryTail(locals)))

NextTxd ==
    \/ TxdHead
    \/ TxdTextureNative
    \/ TxdReturn

SpecTxd == InitTxd /\ [][NextTxd]_vars

-----------------------------------------------------------------------------
(* Two decodes of one buffer, each by a parser of its own.                 *)

Decoders == {"dff", "ifp", "txd"}

\* A second decode of the same buffer by a fresh parser.
DecodeAgain ==
    /\ status # "run"
    /\ run = 1
    /\ inp.decoder \in Decoders
    /\ run' = 2
    /\ prev' = <<Outcome>>
    /\ NewDffParse
    /\ out' = <<>>
    /\ alloc' = NoAlloc
    /\ locals' = NoLocals
    /\ last' = [op |-> "new", at |-> 0]
    /\ UNCHANGED <<buf, inp>>

InitDecode == InitDff \/ InitIfp \/ InitTxd

NextDecode ==
    \/ NextDff
    \/ NextIfp
    \/ NextTxd
    \/ DecodeAgain

SpecDecode == InitDecode /\ [][NextDecode]_vars

C6_TxdTwice ==
    /\ run = 2
    /\ status = "ok"
    /\ inp.decoder = "txd"
    /\ \E i \in 1..Len(out.texture_dictionary.texture_natives) :
           /\ out.texture_dictionary.texture_natives[i].mipmaps # <<>>
           /\ out.texture_dictionary.texture_natives[i].mipmaps[1] # <<>>

\* An IFP buffer with keyframes has been decoded twice.
C6_IfpTwice ==
    /\ run = 2
    /\ status = "ok"
    /\ inp.decoder = "ifp"
    /\ out.animations # <<>>

\* A decode that failed has been repeated and has failed again.
C6_ErrorTwice ==
    /\ run = 2
    /\ status \in {"eof", "panic"}
    /\ prev[1].st = status

-----------------------------------------------------------------------------
(* read_anp3_bone on its own, one step per iteration of its keyframe loop. *)
(* The buffer holds one bone track at position 0.                          *)

\* The raw i16 values of a keyframe: qx, qy, qz, qw, time, px, py, pz.
Anp3RawKeyframes ==
    {<<4096, 0, 0, 4096, 0, 0, 0, 0>>,
     <<0, 4096, 0, 4096, 1, 1024, 0, 0 - 1024>>,
     <<0 - 4096, 2048, 0 - 1, 1, 0 - 3, 512, 0 - 1, 32767>>,
     <<32767, 0 - 32768, 4095, 0 - 2048, 32767, 0 - 32768, 1, 2>>}

Anp3TypeNums == {0, 1, 4}

Anp3Cuts == {0, 3}

\* A bone track: its header and keyframes of 5 or (selector 4) 8 values.
EncAnp3Track(type_num, raws) ==
    Padded(Ascii("door"), 24) \o LE32(type_num) \o LE32(Len(raws)) \o LE32(7)
    \o Concat([k \in 1..Len(raws) |->
           Concat([i \in 1..(IF type_num = 4 THEN 8 ELSE 5) |-> LE16(raws[k][i])])])

InitAnp3 ==
    /\ inp \in [decoder : {"anp3_bone"}, type_num : Anp3TypeNums,
                raws : SeqsUpTo(Anp3RawKeyframes, MaxKeyframes), cut : Anp3Cuts]
    /\ buf = Truncate(EncAnp3Track(inp.type_num, inp.raws), inp.cut)
    /\ pos = 0
    /\ status = "start"
    /\ last = [op |-> "new", at |-> 0]
    /\ out = <<>>
    /\ IdleDff
    /\ alloc = NoAlloc
    /\ locals = NoLocals
    /\ run = 1
    /\ prev = <<>>

\* read_anp3_bone has run up to the state s.
Anp3Phase(op, s) ==
    /\ locals' = s
    /\ pos' = s.pos
    /\ status' = (IF s.st = "ok" THEN "run" ELSE s.st)
    /\ last' = [op |-> op, at |-> pos]
    /\ UNCHANGED <<buf, out, dffVars, alloc, run, prev, inp>>

\* name, keyframe_type_num, keyframes_count, keyframe_type, bone_id and
\* Vec::with_capacity.
Anp3Head ==
    /\ status = "start"
    /\ inp.decoder = "anp3_bone"
    /\ Anp3Phase("head", Anp3BoneHead(pos))

\* One iteration of the keyframe loop.
Anp3Keyframe ==
    /\ status = "run"
    /\ inp.decoder = "anp3_bone"
    /\ Len(locals.keyframes) < locals.keyframes_count
    /\ Anp3Phase("keyframe", Anp3KeyframeStep(locals))

\* Ok(RwIfpBone { .. })
Anp3Return ==
    /\ status = "run"
    /\ inp.decoder = "anp3_bone"
    /\ ~(Len(locals.keyframes) < locals.keyframes_count)
    /\ status' = "ok"
    /\ out' = Anp3BoneOf(locals)
    /\ last' = [op |-> "return", at |-> pos]
    /\ UNCHANGED <<buf, pos, locals, dffVars, alloc, run, prev, inp>>

NextAnp3 ==
    \/ Anp3Head
    \/ Anp3Keyframe
    \/ Anp3Return

SpecAnp3 == InitAnp3 /\ [][NextAnp3]_vars

\* The f32 a fraction stands for equals that of another.
SameValue(a, b) == a.num * b.den = b.num * a.den

\* The keyframe pushed by the last step and the raw values it was read from.
LastKeyframe == locals.keyframes[Len(locals.keyframes)]
LastRaw == inp.raws[Len(locals.keyframes)]

\* C11: on the ANP3 path a keyframe of a track whose selector is not 4 is
\* the rotation (x, y, z, w) = the four i16 values over 4096, the time = the
\* fifth i16 value, position (0, 0, 0) and scale (1, 1, 1), read from 10
\* bytes; with selector 4 three more i16 values over 1024 are the position
\* and the keyframe takes 16 bytes.  The raw rotation (4096, 0, 0, 4096) is
\* (1, 0, 0, 1) and (0, 4096, 0, 4096) is (0, 1, 0, 1).
C11_Anp3Keyframe ==
    /\ (last.op = "head" /\ status = "run") =>
          locals.keyframe_type
              = (IF inp.type_num = 4 THEN Ascii("KRT0") ELSE Ascii("KR00"))
    /\ (last.op = "keyframe" /\ status = "run") =>
          /\ LastKeyframe.rotation = [x |-> [num |-> LastRaw[1], den |-> 4096],
                                      y |-> [num |-> LastRaw[2], den |-> 4096],
                                      z |-> [num |-> LastRaw[3], den |-> 4096],
                                      w |-> [num |-> LastRaw[4], den |-> 4096]]
          /\ LastKeyframe.time = [num |-> LastRaw[5], den |-> 1]
          /\ \A c \in {"x", "y", "z"} : SameValue(LastKeyframe.scale[c], FixedOne)
          /\ inp.type_num # 4 =>
                /\ \A c \in {"x", "y", "z"} :
                      SameValue(LastKeyframe.position[c], FixedZero)
                /\ pos = last.at + 10
          /\ inp.type_num = 4 =>
                /\ LastKeyframe.position = [x |-> [num |-> LastRaw[6], den |-> 1024],
                                            y |-> [num |-> LastRaw[7], den |-> 1024],
                                            z |-> [num |-> LastRaw[8], den |-> 1024]]
                /\ pos = last.at + 16
          /\ SubSeq(LastRaw, 1, 4) = <<4096, 0, 0, 4096>> =>
                /\ SameValue(LastKeyframe.rotation.x, FixedOne)
                /\ SameValue(LastKeyframe.rotation.y, FixedZero)
                /\ SameValue(LastKeyframe.rotation.z, FixedZero)
                /\ SameValue(LastKeyframe.rotation.w, FixedOne)
          /\ SubSeq(LastRaw, 1, 4) = <<0, 4096, 0, 4096>> =>
                /\ SameValue(LastKeyframe.rotation.x, FixedZero)
                /\ SameValue(LastKeyframe.rotation.y, FixedOne)
                /\ SameValue(LastKeyframe.rotation.z, FixedZero)
                /\ SameValue(LastKeyframe.rotation.w, FixedOne)
    /\ (inp.decoder = "anp3_bone" /\ status = "ok") =>
          /\ Len(out.keyframes) = Len(inp.raws)
          /\ pos = 36 + (IF inp.type_num = 4 THEN 16 ELSE 10) * Len(inp.raws)

\* A KR00 track with the two keyframes (4096, 0, 0, 4096) and
\* (0, 4096, 0, 4096) was decoded.
C11_Witness ==
    /\ inp.decoder = "anp3_bone"
    /\ status = "ok"
    /\ out.keyframe_type = Ascii("KR00")
    /\ Len(out.keyframes) = 2
    /\ inp.raws[1][1] = 4096
    /\ inp.raws[2][2] = 4096
    /\ SameValue(out.keyframes[1].rotation.x, FixedOne)
    /\ SameValue(out.keyframes[2].rotation.y, FixedOne)
    /\ out.keyframes[2].position = [x |-> FixedZero, y |-> FixedZero, z |-> FixedZero]
    /\ pos = 56

\* A KRT0 keyframe with a negative position component was decoded.
C11_WithPosition ==
    /\ inp.decoder = "anp3_bone"
    /\ last.op = "keyframe"
    /\ status = "run"
    /\ inp.type_num = 4
    /\ LastKeyframe.position.z = [num |-> 0 - 1024, den |-> 1024]
    /\ pos = last.at + 16

-----------------------------------------------------------------------------
(* Properties of DffParser::parse: the result of a whole decode.           *)

\* The buffer is a clump header of declared size 0 followed by a header of
\* type 0, and nothing else.
RootAndTerminator ==
    /\ inp.decoder = "dff"
    /\ Len(buf) = 24
    /\ read_section_header(0).v.section_type = RwClump
    /\ read_section_header(0).v.section_size = 0
    /\ read_section_header(12).v.section_type = 0

\* C12: a buffer that is only a clump header of declared size 0 followed by
\* a header of type 0 decodes successfully, with no frame list, no geometry
\* list, no dummies and the classification Generic.
C12_RootAndTerminator ==
    RootAndTerminator =>
        /\ status \in {"run", "ok"}
        /\ status = "ok" =>
              /\ out.frame_list = <<>>
              /\ out.geometry_list = <<>>
              /\ out.dummies = <<>>
              /\ out.model_type = "Generic"

\* The decode of such a buffer has returned, at the terminal header.
C12_Witness ==
    /\ RootAndTerminator
    /\ status = "ok"
    /\ last.op = "break"
    /\ pos = 24
    /\ out.model_type = "Generic"

\* The bytes of a string with the ASCII capitals folded to small letters.
Folded(str) == [i \in 1..Len(str) |-> IF str[i] \in 65..90 THEN str[i] + 32 ELSE str[i]]

\* The name holds "wheel" or "chassis" in any mix of cases.
NamesAVehiclePart(name) ==
    \E i \in 1..Len(name), j \in 1..Len(name) :
        SubSeq(Folded(name), i, j) \in
            {<<119, 104, 101, 101, 108>>, <<99, 104, 97, 115, 115, 105, 115>>}

\* Some geometry of the result carries a skin.
AnySkin ==
    /\ out.geometry_list # <<>>
    /\ \E i \in 1..Len(out.geometry_list[1].geometries) :
           out.geometry_list[1].geometries[i].skin # <<>>

\* Some dummy of the result names a vehicle part.
AnyVehiclePart == \E i \in 1..Len(out.dummies) : NamesAVehiclePart(out.dummies[i])

\* C13: the classification of a decoded model is Skinned if any geometry
\* has a skin; otherwise Vehicle if any dummy name contains "wheel" or
\* "chassis" in any case; otherwise Generic.  It is computed once, from the
\* decoded data, when the loop is over.
C13_Classification ==
    /\ (inp.decoder = "dff" /\ status = "ok") =>
          out.model_type = (IF AnySkin THEN "Skin"
                            ELSE IF AnyVehiclePart THEN "Vehicle" ELSE "Generic")
    /\ (inp.decoder = "dff" /\ status = "run") => out = <<>>

\* A skinned model with a chassis dummy was decoded: it is Skinned.
C13_Witness ==
    /\ inp.decoder = "dff"
    /\ status = "ok"
    /\ AnySkin
    /\ \E i \in 1..Len(out.dummies) : out.dummies[i] = Ascii("CHASSIS")
    /\ out.model_type = "Skin"

\* A model without skin and with a wheel dummy was decoded: it is a Vehicle.
C13_Vehicle ==
    /\ inp.decoder = "dff"
    /\ status = "ok"
    /\ out.geometry_list # <<>>
    /\ ~AnySkin
    /\ out.dummies = <<Ascii("Wheel_lf")>>
    /\ out.model_type = "Vehicle"

\* A model with a geometry, no skin and a dummy that names no vehicle part
\* was decoded: it is Generic.
C13_Generic ==
    /\ inp.decoder = "dff"
    /\ status = "ok"
    /\ out.geometry_list # <<>>
    /\ out.dummies = <<Ascii("door")>>
    /\ out.model_type = "Generic"

-----------------------------------------------------------------------------
(* Properties of DffParser::parse: the atomics table.                      *)

\* The buffer is written from atomics and forward-pointing frame lists only.
IndexSectionsOnly ==
    /\ inp.decoder = "dff"
    /\ \A k \in 1..Len(inp.secs) : inp.secs[k] \in DffIndexIds

\* The position at which the first k sections of the buffer end.
SectionsEnd(k) == Len(Concat([j \in 1..k |-> DffSection(inp.secs[j])]))

\* The positions, among the first k sections, of the atomics that bind
\* geometry index g.
AtomicsFor(k, g) ==
    {j \in 1..k : /\ inp.secs[j] # "frames_fwd"
                  /\ AtomicParams(inp.secs[j]).geometry_index = g}

Largest(S) == CHOOSE m \in S : \A n \in S : n <= m

\* The geometry indices bound by the first k sections.
GeometryIndicesSeen(k) == {g \in 0..2 : AtomicsFor(k, g) # {}}

\* The table the first k sections call for: as long as the largest geometry
\* index seen plus one, each entry the frame index of the latest atomic that
\* bound it, or 0.
TableAfter(k) ==
    [i \in 1..(IF GeometryIndicesSeen(k) = {} THEN 0
               ELSE 1 + Largest(GeometryIndicesSeen(k))) |->
        IF AtomicsFor(k, i - 1) = {} THEN 0
        ELSE AtomicParams(inp.secs[Largest(AtomicsFor(k, i - 1))]).frame_index]

\* The atomics table is the one its sections call for, at every section
\* boundary the loop reaches and in the result.
AtomicsTableFollowsSections ==
    IndexSectionsOnly =>
        \A k \in 0..Len(inp.secs) :
            (status \in {"run", "ok"} /\ pos = SectionsEnd(k)) =>
                /\ atomics = TableAfter(k)
                /\ status = "ok" => out.atomics = TableAfter(k)

\* C14: the atomics table is as long as the largest geometry index seen plus
\* one (empty if there was no atomic); entry g is the frame index of the
\* most recent atomic with geometry index g, entries never bound are 0; and
\* the table never shrinks.
C14_AtomicsTable ==
    /\ []AtomicsTableFollowsSections
    /\ [][Len(atomics') >= Len(atomics)]_vars

\* Geometry index 0 was bound twice and the later frame index stands.
C14_Witness ==
    /\ inp.decoder = "dff"
    /\ inp.secs = <<"atomic_0", "atomic_0b">>
    /\ status = "ok"
    /\ out.atomics = <<5>>

\* Geometry index 2 was bound first, index 0 after it: the table keeps its
\* three entries and the entry never bound is 0.
C14_Sparse ==
    /\ inp.decoder = "dff"
    /\ inp.secs = <<"atomic_2", "atomic_0">>
    /\ status = "ok"
    /\ out.atomics = <<1, 0, 3>>

-----------------------------------------------------------------------------
(* Properties of DffParser::parse: the frame hierarchy.                    *)

\* C17: in every decoded frame list each frame's parent index is negative
\* or less than the frame's own position in the list.
C17_ParentsPrecede ==
    (inp.decoder = "dff" /\ status \in {"run", "ok"} /\ frame_list # <<>>) =>
        \A i \in 1..Len(frame_list[1].frames) :
            \/ frame_list[1].frames[i].parent_frame < 0
            \/ frame_list[1].frames[i].parent_frame < i - 1

\* A frame list whose parents point forward was decoded and returned as
\* it was written.
C17_ForwardParentsKept ==
    /\ inp.decoder = "dff"
    /\ inp.secs = <<"frames_fwd">>
    /\ status = "ok"
    /\ [i \in 1..2 |-> out.frame_list[1].frames[i].parent_frame] = ForwardParents

-----------------------------------------------------------------------------
(* Properties of DffParser::parse: headers of declared size 0.             *)

\* The 12 bytes at the cursor are a header with a type other than 0 and a
\* declared size of 0.
ZeroSizeHeaderAhead ==
    /\ pos + 12 <= Len(buf)
    /\ SubSeq(buf, pos + 1, pos + 4) # <<0, 0, 0, 0>>
    /\ SubSeq(buf, pos + 5, pos + 8) = <<0, 0, 0, 0>>

\* C18: in the top-level loop a header with a type other than 0 and a
\* declared size of 0 is passed over whatever its type: the cursor moves by
\* the 12 bytes of the header and the version, frame list, geometry list,
\* atomics, dummies and anim nodes stay as they were.
C18_ZeroSizePassedOver ==
    [][(DffRunning /\ ZeroSizeHeaderAhead) =>
          /\ pos' = pos + 12
          /\ status' = "run"
          /\ UNCHANGED <<version, version_number, frame_list, geometry_list,
                         atomics, dummies, anim_nodes>>]_vars

\* An atomic header of declared size 0 was passed over after a dummy had
\* been read.
C18_Witness ==
    /\ inp.decoder = "dff"
    /\ inp.secs = <<"name", "zero_atomic">>
    /\ last.op = "continue"
    /\ pos = last.at + 12
    /\ dummies = <<Ascii("door")>>
    /\ atomics = <<>>

\* A clump header of declared size 0 was passed over after an atomic had
\* been read: no version is taken from it.
C18_ClumpPassedOver ==
    /\ inp.decoder = "dff"
    /\ inp.secs = <<"atomic_0", "clump_zero">>
    /\ last.op = "continue"
    /\ pos = last.at + 12
    /\ version_number = <<>>
    /\ atomics = <<1>>

\* A geometry-list header and a frame-list header of declared size 0 were
\* passed over one after the other.
C18_ListsPassedOver ==
    /\ inp.decoder = "dff"
    /\ inp.secs = <<"zero_geometry_list", "zero_frame_list">>
    /\ last = [op |-> "continue", at |-> 12]
    /\ pos = 24
    /\ geometry_list = <<>>
    /\ frame_list = <<>>

-----------------------------------------------------------------------------
(* Properties of DffParser::parse: the version taken from clump headers.   *)

\* C20: the version number and string are those of the first clump section
\* met; a later clump section does not change them.
C20_FirstClumpVersion ==
    [][(DffRunning /\ version_number # <<>>) =>
          UNCHANGED <<version, version_number>>]_vars

\* A buffer with two clump headers of different versions was decoded: the
\* result carries the version of the second.
C20_LastClumpVersion ==
    /\ inp.decoder = "dff"
    /\ inp.secs = <<"clump", "clump_vc">>
    /\ inp.cut = 0
    /\ status = "ok"
    /\ out.version_number = unpack_version(Wide(PackedVC))
    /\ out.version_number # unpack_version(Wide(PackedSA))

\* The clump arm leaves the cursor right after the header: the bytes that
\* follow are read as the next top-level header.
C20_PayloadNotSkipped ==
    (inp.decoder = "dff" /\ last.op = "clump") => pos = last.at + 12

-----------------------------------------------------------------------------
(* Properties of read_geometry: the cursor on return.                      *)

\* The position at which the geometry's last wrapper ends in the buffer.
GeometryEnd == Len(EncGeometry(GeomParams(inp), inp.ver))

\* C19: whenever read_geometry returns a geometry the cursor is at the
\* position taken right after the wrapper header that follows the material
\* list plus that header's declared size, with or without a skin and
\* whatever the bin mesh and skin readers consumed; the section that
\* follows the geometry starts at the cursor.
C19_CursorAtWrapperEnd ==
    (inp.decoder = "geometry" /\ status = "ok") =>
        /\ pos = locals.position + locals.section_size
        /\ pos = GeometryEnd
        /\ SubSeq(buf, pos + 1, Len(buf)) = Truncate(GeomFollower(inp.follow), inp.cut)

\* A geometry without skin and with nothing after its bin mesh was
\* returned: the header read after the bin mesh was the one of the section
\* that follows the geometry, and the cursor is back at its start.
C19_Witness ==
    /\ inp.decoder = "geometry"
    /\ inp.after = "none"
    /\ inp.follow = "name"
    /\ inp.cut = 0
    /\ status = "ok"
    /\ out.skin = <<>>
    /\ locals.next_header.section_type = RwNodeName
    /\ pos = Len(buf) - Len(GeomFollower("name"))
    /\ read_section_header(pos).v.section_type = RwNodeName

\* A skinned geometry was returned.
C19_Skinned ==
    /\ inp.decoder = "geometry"
    /\ inp.after = "skin"
    /\ inp.vertex_count = 2
    /\ status = "ok"
    /\ out.skin # <<>>
    /\ pos = GeometryEnd

\* A geometry whose bin mesh is followed by a plugin section was returned:
\* the plugin's payload, left unread, is behind the cursor.
C19_PluginPassed ==
    /\ inp.decoder = "geometry"
    /\ inp.after = "plugin"
    /\ status = "ok"
    /\ last.at < pos
    /\ pos = GeometryEnd

-----------------------------------------------------------------------------
(* Properties of read_texture_native.                                      *)

\* A texture native has just been decoded and pushed.
TextureNativeDecoded ==
    /\ inp.decoder = "txd"
    /\ last.op = "texture_native"
    /\ status = "run"

\* The texture native decoded last.
LastTextureNative == locals.texture_natives[Len(locals.texture_natives)]

C15_NoLevel ==
    /\ TextureNativeDecoded
    /\ inp.shape.mipmaps = 0
    /\ LastTextureNative.mipmaps = <<>>

\* The block-compression tag of the texture written: "DXT" and the
\* compression flags on platform 8, the d3d_format field on platform 9.
TagWritten ==
    IF inp.shape.platform = D3d8
    THEN <<68, 88, 84>> \o Decimal(inp.shape.compression_flags)
    ELSE inp.shape.d3d_format

\* The texture written is one whose pixels are not reconstructed: it has a
\* palette, or it is neither a platform 8 texture with nonzero compression
\* flags nor a platform 9 texture with bit 3 of them set, or its tag is
\* none of DXT1 .. DXT5.
NoPixelPath ==
    \/ inp.shape.palette # 0
    \/ ~ \/ (inp.shape.platform = D3d8 /\ inp.shape.compression_flags # 0)
          \/ (inp.shape.platform = D3d9 /\ (inp.shape.compression_flags \div 8) % 2 = 1)
    \/ TagWritten \notin {<<68, 88, 84, 48 + n>> : n \in 1..5}

\* C16: a texture whose pixels are not reconstructed is no error: its
\* first level becomes an empty pixel buffer and the decode goes on with
\* the header fields kept.
C16_NoPixelPathIsNoError ==
    (inp.decoder = "txd" /\ NoPixelPath) =>
        /\ status \in {"run", "ok", "eof"}
        /\ inp.cut = 0 => status \in {"run", "ok"}
        /\ TextureNativeDecoded =>
              /\ LastTextureNative.mipmaps =
                     (IF inp.shape.mipmaps >= 1 THEN <<<<>>>> ELSE <<>>)
              /\ LastTextureNative.platform_id = inp.shape.platform
              /\ LastTextureNative.texture_name = Ascii("tex")
              /\ LastTextureNative.mask_name = Ascii("wheel")
              /\ LastTextureNative.raster_format = 8192 * inp.shape.palette + 5
              /\ LastTextureNative.d3d_format =
                     (IF inp.shape.d3d_format = Zeros(4) THEN <<>>
                      ELSE inp.shape.d3d_format)
              /\ LastTextureNative.width = 4
              /\ LastTextureNative.height = 4
              /\ LastTextureNative.depth = 4
              /\ LastTextureNative.mipmap_count = inp.shape.mipmaps
              /\ LastTextureNative.raster_type = 4
              /\ LastTextureNative.compressed =
                     ((inp.shape.compression_flags \div 8) % 2 = 1)

\* A platform 8 texture with a palette and the tag DXT1 was decoded: its
\* first level is empty.
C16_Witness ==
    /\ TextureNativeDecoded
    /\ inp.shape.palette = 1
    /\ inp.shape.platform = D3d8
    /\ inp.shape.compression_flags = 1
    /\ inp.shape.mipmaps = 2
    /\ LastTextureNative.mipmaps = <<<<>>>>

\* A platform 8 texture with compression flags 8, its tag "DXT8", was
\* decoded: its first level is empty.
C16_UnknownTag ==
    /\ TextureNativeDecoded
    /\ inp.shape.palette = 0
    /\ inp.shape.platform = D3d8
    /\ inp.shape.compression_flags = 8
    /\ inp.shape.mipmaps = 1
    /\ LastTextureNative.mipmaps = <<<<>>>>

\* A platform 9 texture with bit 3 clear and the tag DXT1 was decoded: its
\* first level is empty.
C16_NotCompressed ==
    /\ TextureNativeDecoded
    /\ inp.shape.palette = 0
    /\ inp.shape.platform = D3d9
    /\ inp.shape.compression_flags = 1
    /\ inp.shape.d3d_format = <<68, 88, 84, 49>>
    /\ inp.shape.mipmaps = 1
    /\ LastTextureNative.mipmaps = <<<<>>>>

\* A whole dictionary of such textures was decoded.
C16_DictionaryReturned ==
    /\ inp.decoder = "txd"
    /\ NoPixelPath
    /\ inp.shape.textures = 2
    /\ inp.shape.mipmaps = 2
    /\ status = "ok"
    /\ Len(out.texture_dictionary.texture_natives) = 2

-----------------------------------------------------------------------------
(* Properties of the ANPK path of IfpParser::parse.                        *)

\* The ANPK decoder has run on a package whose info length is at least 4.
AnpkDecoded ==
    /\ inp.decoder = "ifp"
    /\ last.op = "read_anpk"
    /\ inp.shape.info_len >= 4

\* C21: whatever four bytes the channel-type tag of a bone track with
\* keyframes holds, NUL bytes included, the ANPK decode ends with a package
\* or with a decode error.
C21_EveryTagDecodes == AnpkDecoded => status \in {"ok", "eof"}

\* A complete package whose only track has one keyframe and the tag
\* 'K', NUL, NUL, NUL ended in a panic.
C21_NulTagPanics ==
    /\ AnpkDecoded
    /\ inp.shape.animations = 1
    /\ inp.shape.keyframes = 1
    /\ inp.shape.type = <<75, 0, 0, 0>>
    /\ inp.cut = 0
    /\ status = "panic"

\* With a tag of four characters each keyframe is the rotation, the
\* position when the third character is 'T', the scale when the fourth is
\* 'S', and the time.
C21_FullTagsDecode ==
    (AnpkDecoded /\ inp.shape.type # <<75, 0, 0, 0>> /\ status = "ok") =>
        \A a \in 1..Len(out.animations) :
            \A k \in 1..Len(out.animations[a].bones[1].keyframes) :
                LET kf == out.animations[a].bones[1].keyframes[k]
                IN  /\ kf.rotation = [x |-> F32Bits(k), y |-> F32Bits(k + 1),
                                       z |-> F32Bits(k + 2), w |-> F32Bits(k + 3)]
                    /\ kf.position =
                           (IF inp.shape.type[3] = 84
                            THEN [x |-> F32Bits(20), y |-> F32Bits(21), z |-> F32Bits(22)]
                            ELSE [x |-> FloatZero, y |-> FloatZero, z |-> FloatZero])
                    /\ kf.scale =
                           (IF inp.shape.type[4] = 83
                            THEN [x |-> F32Bits(30), y |-> F32Bits(31), z |-> F32Bits(32)]
                            ELSE [x |-> FloatOne, y |-> FloatOne, z |-> FloatOne])
                    /\ kf.time = F32Bits(40 + k)

\* The ANPK decoder has run on a buffer that holds the info length.
InfoLengthRead ==
    /\ inp.decoder = "ifp"
    /\ last.op = "read_anpk"
    /\ Len(buf) >= 20

\* C23: the package name is read as a string of info length - 4 bytes and
\* then (4 - info length mod 4) mod 4 bytes are skipped, so that the name
\* and its padding take a multiple of 4 bytes; an info length below 4, for
\* which the subtraction is not defined, ends the decode with a decode
\* error.
C23_InfoLength ==
    InfoLengthRead =>
        /\ inp.shape.info_len < 4 => status = "eof"
        /\ (inp.shape.info_len >= 4 /\ status = "ok" /\ inp.shape.animations = 0) =>
              /\ pos = 20 + (inp.shape.info_len - 4) + ((4 - (inp.shape.info_len % 4)) % 4)
              /\ (pos - 20) % 4 = 0
              /\ out.name = Ascii("wheel")

\* An info length of 3 in a build with overflow checks ended in a panic.
C23_UnderflowPanics ==
    /\ InfoLengthRead
    /\ inp.shape.info_len = 3
    /\ inp.build = "debug"
    /\ inp.cut = 0
    /\ status = "panic"

\* For an info length of at least 4 the name block is read and padded as
\* stated.
C23_NameBlockAligned ==
    (InfoLengthRead /\ inp.shape.info_len >= 4 /\ status = "ok"
        /\ inp.shape.animations = 0) =>
        /\ pos = 20 + (inp.shape.info_len - 4) + ((4 - (inp.shape.info_len % 4)) % 4)
        /\ (pos - 20) % 4 = 0
        /\ out.name = Ascii("wheel")

\* An info length of 9 was decoded: five bytes of name and three of padding.
C23_PaddedName ==
    /\ InfoLengthRead
    /\ inp.shape.info_len = 9
    /\ inp.shape.animations = 0
    /\ status = "ok"
    /\ pos = 28

-----------------------------------------------------------------------------
(* Two decodes of the same atomic sections, the second of a buffer that    *)
(* holds them in another order, each by a parser of its own.               *)

MaxAtomics == 3

ReorderAtomicIds == {"atomic_0", "atomic_0b", "atomic_1", "atomic_2"}

\* 0, or enough to leave less than a header of the last atomic.
ReorderCuts == {0, 30}

InitReorder ==
    /\ inp \in [decoder : {"dff"}, secs : SeqsUpTo(ReorderAtomicIds, MaxAtomics),
                 cut : ReorderCuts]
    /\ buf = DffBuffer(inp)
    /\ pos = 0
    /\ status = "run"
    /\ last = [op |-> "new", at |-> 0]
    /\ out = <<>>
    /\ IdleDff
    /\ alloc = NoAlloc
    /\ locals = NoLocals
    /\ run = 1
    /\ prev = <<>>

\* The one-to-one maps of 1..n onto itself.
Orders(n) == {f \in [1..n -> 1..n] : \A i, j \in 1..n : f[i] = f[j] => i = j}

\* A decode, by a fresh parser, of a buffer holding the same sections in
\* the order f; the first decode's outcome and order are kept in prev.
DecodeReordered ==
    /\ status # "run"
    /\ run = 1
    /\ \E f \in Orders(Len(inp.secs)) :
           /\ inp' = [inp EXCEPT !.secs = [k \in 1..Len(inp.secs) |-> inp.secs[f[k]]]]
           /\ buf' = DffBuffer(inp')
    /\ run' = 2
    /\ prev' = <<Outcome, inp.secs>>
    /\ NewDffParse
    /\ out' = <<>>
    /\ alloc' = NoAlloc
    /\ locals' = NoLocals
    /\ last' = [op |-> "new", at |-> 0]

NextReorder ==
    \/ DffEndOfBuffer
    \/ DffHeaderError
    \/ DffAtomic
    \/ DecodeReordered

SpecReorder == InitReorder /\ [][NextReorder]_vars

\* Both decodes have returned a model.
BothDecoded == run = 2 /\ status = "ok" /\ prev[1].st = "ok"

\* No two of the sections bind the same geometry index.
DistinctGeometryIndices ==
    \A i, j \in 1..Len(inp.secs) :
        AtomicParams(inp.secs[i]).geometry_index = AtomicParams(inp.secs[j]).geometry_index
            => i = j

\* C22 as stated: the atomics table of the result is the same for every
\* order of the same atomic sections.
C22_OrderIrrelevant == BothDecoded => out.atomics = prev[1].v.atomics

\* C22, amended: the atomics table of the result is the same for every
\* order of the same atomic sections when no two of them bind the same
\* geometry index.
C22_OrderIrrelevantForDistinctIndices ==
    (BothDecoded /\ DistinctGeometryIndices) => out.atomics = prev[1].v.atomics

\* Three atomics with different geometry indices were decoded in two
\* different orders.
C22_Witness ==
    /\ BothDecoded
    /\ prev[2] = <<"atomic_2", "atomic_0", "atomic_1">>
    /\ inp.secs = <<"atomic_1", "atomic_2", "atomic_0">>
    /\ out.atomics = <<1, 2, 3>>
    /\ prev[1].v.atomics = <<1, 2, 3>>

\* Two atomics that bind geometry index 0 to different frames were decoded
\* in both orders: each result carries the frame of the one met last.
C22_LastBindingWins ==
    /\ BothDecoded
    /\ prev[2] = <<"atomic_0", "atomic_0b">>
    /\ inp.secs = <<"atomic_0b", "atomic_0">>
    /\ prev[1].v.atomics = <<5>>
    /\ out.atomics = <<1>>

-----------------------------------------------------------------------------
(* Properties of read_geometry: the skin.                                  *)

\* The position at which the bin mesh ends in the buffer.
BinMeshEnd == GeometryEnd - Len(EncAfterBinMesh(GeomParams(inp)))

\* The type code of the 12-byte header that follows the bin mesh.
TypeAfterBinMesh == U32LE(SubSeq(buf, BinMeshEnd + 1, BinMeshEnd + 4))

\* C24: the skin of a returned geometry is present if and only if the
\* header read right after the bin mesh has the skin type code 0x116; with
\* any other type the header is ignored and the geometry has no skin, also
\* when a skin section lies later inside the geometry's wrapper.
C24_SkinFollowsBinMesh ==
    (inp.decoder = "geometry" /\ status = "ok") =>
        /\ locals.next_header.section_type = TypeAfterBinMesh
        /\ out.skin # <<>> <=> TypeAfterBinMesh = RwSkin
        /\ inp.after = "plugin_skin" => out.skin = <<>>

\* A geometry whose bin mesh is followed by a plugin section and then a skin
\* section, both inside its wrapper, was returned without skin.
C24_Witness ==
    /\ inp.decoder = "geometry"
    /\ inp.after = "plugin_skin"
    /\ inp.vertex_count = 2
    /\ status = "ok"
    /\ locals.next_header.section_type = 288
    /\ out.skin = <<>>
    /\ pos = GeometryEnd

\* A geometry whose bin mesh is followed by a skin section was returned
\* with the skin decoded.
C24_SkinDecoded ==
    /\ inp.decoder = "geometry"
    /\ inp.after = "skin"
    /\ inp.vertex_count = 2
    /\ status = "ok"
    /\ TypeAfterBinMesh = RwSkin
    /\ out.skin # <<>>
    /\ out.skin[1].bone_count = 1

\* A geometry with nothing after its bin mesh, followed in the buffer by a
\* skin section outside its wrapper, was returned with that skin decoded
\* and the cursor at the start of the skin section.
C24_SkinBehindWrapper ==
    /\ inp.decoder = "geometry"
    /\ inp.after = "none"
    /\ inp.follow = "skin"
    /\ inp.vertex_count = 2
    /\ inp.cut = 0
    /\ status = "ok"
    /\ out.skin # <<>>
    /\ pos = GeometryEnd

-----------------------------------------------------------------------------
(* Properties of DffParser::parse: the header read after the bin mesh.     *)

\* Section k of the buffer is a geometry list whose geometry ends with its
\* bin mesh, the sections before it decode, and fewer than 12 bytes of the
\* buffer lie after it.
BinMeshNearEnd(k) ==
    /\ inp.decoder = "dff"
    /\ \A j \in 1..Len(inp.secs) : inp.secs[j] \in DffClassIds
    /\ k \in 1..Len(inp.secs)
    /\ inp.secs[k] = "geometry_bare"
    /\ \A j \in 1..(k - 1) : inp.secs[j] # "geometry_bare"
    /\ Len(buf) >= SectionsEnd(k)
    /\ Len(buf) - SectionsEnd(k) < 12

\* C26: read_geometry needs a whole 12-byte header after the bin mesh also
\* when the geometry has no skin: with fewer than 12 bytes left after the
\* last mesh the geometry decode, and the decode of the model with it, ends
\* with the truncated-input error and there is no result.
C26_HeaderNeededAfterBinMesh ==
    \A k \in 1..Len(inp.secs) :
        BinMeshNearEnd(k) =>
            /\ status \in {"run", "eof"}
            /\ out = <<>>
            /\ status = "eof" => (last.op = "geometry_list" /\ last.at = SectionsEnd(k - 1))
            /\ (status = "run" /\ pos >= SectionsEnd(k - 1)) => pos = SectionsEnd(k - 1)

\* A buffer that ends with the bin mesh of its geometry, a dummy before it,
\* was refused.
C26_Witness ==
    /\ BinMeshNearEnd(2)
    /\ inp.secs = <<"name", "geometry_bare">>
    /\ Len(buf) = SectionsEnd(2)
    /\ status = "eof"
    /\ last.op = "geometry_list"
    /\ out = <<>>

\* A buffer whose geometry is followed by five bytes was refused.
C26_FiveBytesLeft ==
    /\ BinMeshNearEnd(1)
    /\ inp.secs = <<"geometry_bare", "name">>
    /\ Len(buf) = SectionsEnd(1) + 5
    /\ status = "eof"
    /\ out = <<>>

\* The same geometry followed by a whole section was decoded.
C26_HeaderPresent ==
    /\ inp.decoder = "dff"
    /\ inp.secs = <<"geometry_bare", "name">>
    /\ inp.cut = 0
    /\ status = "ok"
    /\ out.geometry_list # <<>>
    /\ out.dummies = <<Ascii("door")>>

-----------------------------------------------------------------------------
(* Properties of DffParser::parse: termination.                            *)

\* One iteration of the section loop ends the call, with an error, a panic
\* or the break on a header of type 0, or leaves the cursor beyond the
\* position it started at.
IterationAdvances == DffRunning => (status' # "run" \/ pos' > pos)

\* With the cursor at or past the end of the buffer the loop is left and
\* the model returned.
LoopLeftAtEnd ==
    (DffRunning /\ pos >= Len(buf)) => (status' = "ok" /\ last'.op = "end_of_buffer")

\* C25: parse terminates on every buffer: every iteration of the section
\* loop ends the call or leaves the cursor strictly beyond the position it
\* started at, also when read_geometry moved the cursor backwards; and the
\* loop is left as soon as the cursor is at or past the end of the buffer.
C25_ParseTerminates ==
    /\ [][IterationAdvances]_vars
    /\ [][LoopLeftAtEnd]_vars
    /\ <>(status # "run")

\* A geometry whose wrapper declares a size of 0 was decoded: read_geometry
\* read the bin mesh and the header after it, then put the cursor back at
\* the start of the bin mesh, and the iteration still ended beyond its start.
C25_Witness ==
    /\ inp.decoder = "dff"
    /\ inp.secs = <<"geometry_short", "name">>
    /\ inp.cut = 0
    /\ last = [op |-> "geometry_list", at |-> 0]
    /\ status = "run"
    /\ pos = SectionsEnd(1) - Len(EncBinMesh(BareGeometry.meshes))
    /\ pos > last.at

\* The bin mesh left behind by such a geometry was then passed over as a
\* top-level section of its own and the decode returned at the end of the
\* buffer.
C25_ShortWrapperDecoded ==
    /\ inp.decoder = "dff"
    /\ inp.secs = <<"geometry_short", "name">>
    /\ inp.cut = 0
    /\ status = "ok"
    /\ last.op = "end_of_buffer"
    /\ out.geometry_list # <<>>
    /\ out.dummies = <<Ascii("door")>>

====
